---------------------------- MODULE Spec2Model ----------------------------
(***************************************************************************)
(* A model of the life-log server: the three relations (logs, tags,        *)
(* log_tags) with the constraints of the migration, the route handlers of  *)
(* logs.ts, tags.ts and timeline.ts at the granularity of one storage      *)
(* statement per step, and a client that pages through a listing by        *)
(* following nextCursor.                                                    *)
(*                                                                         *)
(* Text is modelled as a sequence of one-character strings, so that the    *)
(* ID pattern, String.trim, Number(...) and the cursor's "{ts}_{id}" form  *)
(* are computed character by character.                                    *)
(***************************************************************************)
EXTENDS Integers, Sequences, FiniteSets, TLC

VARIABLES
    logs,       \* the rows of table logs: a set of records
    tags,       \* the rows of table tags: a set of records
    logTags,    \* the rows of table log_tags: <<logId, tagId>> -> number of rows
    usedIds,    \* the IDs ulid() has returned so far
    req,        \* the requests in flight or answered, one per connection slot
    reply,      \* the answer the last step sent, if it sent one, with its request
    run,        \* the paging client: listing, limit, cursor, items received
    probe       \* the last cursor text a listing was asked to validate

vars == <<logs, tags, logTags, usedIds, req, reply, run, probe>>

-----------------------------------------------------------------------------
(* Bounds of the model.                                                    *)

MaxLogIds == 3      \* IDs that ulid() can hand to logs
MaxTagIds == 2      \* IDs that ulid() can hand to tags
MaxTs == 2          \* event timestamps are 1..MaxTs
MaxRequests == 2    \* connection slots of the write workload
MaxWriteLogs == 2   \* logs the write workload creates
MaxWriteTags == 2   \* tags the write workload creates

-----------------------------------------------------------------------------
(* Text.                                                                   *)

None == <<>>
Some(x) == <<x>>

\* The element of a set of one element. A value computed once and used in
\* several places is written { e(x) : x \in {v} } and read with Only.
Only(S) == CHOOSE x \in S : TRUE

Digits == <<"0", "1", "2", "3", "4", "5", "6", "7", "8", "9">>
Upper == <<"A", "B", "C", "D", "E", "F", "G", "H", "I", "J", "K", "L", "M",
           "N", "O", "P", "Q", "R", "S", "T", "U", "V", "W", "X", "Y", "Z">>

Range(f) == {f[i] : i \in DOMAIN f}

\* The binary collation of the store on the characters an ID can hold.
CharOrder == Digits \o Upper
Code(c) == CHOOSE i \in DOMAIN CharOrder : CharOrder[i] = c

RECURSIVE TextLt(_, _)
TextLt(a, b) ==
    IF b = <<>> THEN FALSE
    ELSE IF a = <<>> THEN TRUE
    ELSE IF Head(a) = Head(b) THEN TextLt(Tail(a), Tail(b))
    ELSE Code(Head(a)) < Code(Head(b))

Rep(c, n) == [i \in 1..n |-> c]

IsSpace(c) == c = " "

RECURSIVE TrimLeft(_)
TrimLeft(s) == IF s # <<>> /\ IsSpace(Head(s)) THEN TrimLeft(Tail(s)) ELSE s

RECURSIVE TrimRight(_)
TrimRight(s) ==
    IF s # <<>> /\ IsSpace(s[Len(s)]) THEN TrimRight(SubSeq(s, 1, Len(s) - 1)) ELSE s

\* String.prototype.trim
Trim(s) == TrimRight(TrimLeft(s))

\* The position of the first c in s, or 0.
IndexOf(s, c) ==
    IF c \in Range(s) THEN CHOOSE i \in DOMAIN s : s[i] = c /\ \A j \in 1..(i - 1) : s[j] # c
    ELSE 0

-----------------------------------------------------------------------------
(* IDs.                                                                    *)

UlidLen == 26
UlidAlphabet == Range(Digits) \cup (Range(Upper) \ {"I", "L", "O", "U"})

\* the pattern without the character class
ulidLengthOnly(s) == Len(s) = UlidLen

\* /^[0-9A-HJKMNP-TV-Z]{26}$/
ulidRegex(s) == Len(s) = UlidLen /\ \A i \in DOMAIN s : s[i] \in UlidAlphabet

\* The IDs the generator can return: 26 characters that differ in the last.
LogIdChars == <<"3", "7", "C", "K">>
TagIdChars == <<"5", "9", "T">>
IdText(c) == Rep("0", UlidLen - 1) \o <<c>>
LogIdPool == {IdText(LogIdChars[i]) : i \in 1..MaxLogIds}
TagIdPool == {IdText(TagIdChars[i]) : i \in 1..MaxTagIds}


-----------------------------------------------------------------------------
(* The schema: the closed set of log types and the three relations with    *)
(* their keys, and the statements the handlers send. A statement that      *)
(* breaks a constraint fails as a whole and changes no row.                *)

logTypes == <<"activity", "wake_up", "meal", "location", "thought", "reading",
              "media", "bookmark">>

isValidLogType(type) == type \in Range(logTypes)

EmptyBag == [p \in {} |-> 0]
Count(bag, p) == IF p \in DOMAIN bag THEN bag[p] ELSE 0

LogIdsOf(lgs) == {l.id : l \in lgs}
TagIdsOf(tgs) == {t.id : t \in tgs}

\* CREATE TABLE logs: id is the primary key.
InsertLog(lgs, row) ==
    IF row.id \in LogIdsOf(lgs)
    THEN [ok |-> FALSE, logs |-> lgs]
    ELSE [ok |-> TRUE, logs |-> lgs \cup {row}]

\* CREATE TABLE tags: id is the primary key, tags_name_unique is on name.
InsertTagNoUniqueIndex(tgs, row) ==
    IF row.id \in TagIdsOf(tgs)
    THEN [ok |-> FALSE, tags |-> tgs]
    ELSE [ok |-> TRUE, tags |-> tgs \cup {row}]

InsertTag(tgs, row) ==
    IF row.id \in TagIdsOf(tgs) \/ \E t \in tgs : t.name = row.name
    THEN [ok |-> FALSE, tags |-> tgs]
    ELSE [ok |-> TRUE, tags |-> tgs \cup {row}]

\* The rows of one INSERT INTO log_tags, added to the table.
AddRows(bag, rows) ==
    LET new == Range(rows)
        n(p) == Cardinality({i \in DOMAIN rows : rows[i] = p})
    IN  [p \in DOMAIN bag \cup new |-> Count(bag, p) + n(p)]

\* CREATE TABLE log_tags: PRIMARY KEY(log_id, tag_id) and the two foreign keys.
InsertLogTagsNoPrimaryKey(bag, lgs, tgs, rows) ==
    LET fk == \A i \in DOMAIN rows :
                  rows[i][1] \in LogIdsOf(lgs) /\ rows[i][2] \in TagIdsOf(tgs)
    IN  IF fk THEN [ok |-> TRUE, logTags |-> AddRows(bag, rows)]
        ELSE [ok |-> FALSE, logTags |-> bag]

InsertLogTags(bag, lgs, tgs, rows) ==
    LET fk == \A i \in DOMAIN rows :
                  rows[i][1] \in LogIdsOf(lgs) /\ rows[i][2] \in TagIdsOf(tgs)
        pk == /\ \A i \in DOMAIN rows : rows[i] \notin DOMAIN bag
              /\ \A i, j \in DOMAIN rows : rows[i] = rows[j] => i = j
    IN  IF fk /\ pk THEN [ok |-> TRUE, logTags |-> AddRows(bag, rows)]
        ELSE [ok |-> FALSE, logTags |-> bag]

\* the statement with nothing deleted
KeepLogTagsOf(bag, id) == bag

\* DELETE FROM log_tags WHERE log_id = id
DeleteLogTagsOf(bag, id) == [p \in {q \in DOMAIN bag : q[1] # id} |-> bag[p]]

\* DELETE FROM logs WHERE id = ..., with ON DELETE cascade of log_tags.log_id
DeleteLogNoCascade(lgs, bag, id) ==
    [logs |-> {l \in lgs : l.id # id}, logTags |-> bag]

DeleteLogRow(lgs, bag, id) ==
    [logs |-> {l \in lgs : l.id # id}, logTags |-> DeleteLogTagsOf(bag, id)]

\* DELETE FROM tags WHERE id = ..., with ON DELETE cascade of log_tags.tag_id
DeleteTagRow(tgs, bag, id) ==
    [tags |-> {t \in tgs : t.id # id},
     logTags |-> [p \in {q \in DOMAIN bag : q[2] # id} |-> bag[p]]]

\* the statement setting every column, an absent one to its empty value
ApplyUpdatesToAllColumns(l, u) ==
    [id |-> l.id,
     type |-> IF u.type # None THEN u.type[1] ELSE l.type,
     content |-> IF u.content # None THEN u.content[1] ELSE <<>>,
     timestamp |-> IF u.timestamp # None THEN u.timestamp[1] ELSE 0,
     metadata |-> IF u.metadata # None THEN u.metadata[1] ELSE "null",
     createdAt |-> l.createdAt,
     updatedAt |-> u.updatedAt]

\* UPDATE logs SET ... WHERE id = ...: u holds the supplied columns as options, and
\* updatedAt.
ApplyUpdates(l, u) ==
    [id |-> l.id,
     type |-> IF u.type # None THEN u.type[1] ELSE l.type,
     content |-> IF u.content # None THEN u.content[1] ELSE l.content,
     timestamp |-> IF u.timestamp # None THEN u.timestamp[1] ELSE l.timestamp,
     metadata |-> IF u.metadata # None THEN u.metadata[1] ELSE l.metadata,
     createdAt |-> l.createdAt,
     updatedAt |-> u.updatedAt]

UpdateLogRow(lgs, id, u) == {IF l.id = id THEN ApplyUpdates(l, u) ELSE l : l \in lgs}

\* The status of the duplicate-name answer, were a thrown statement answered with it.
ConflictStatus == 409

\* app.onError: a statement that throws is answered with this status.
InternalErrorStatus == 500

-----------------------------------------------------------------------------
(* Numbers and the cursor codec. A number is a fraction num/den with        *)
(* den > 0, or NaN; stored timestamps are integers.                         *)

NaN == [nan |-> TRUE, num |-> 0, den |-> 1]
Num(n) == [nan |-> FALSE, num |-> n, den |-> 1]

DigitValue(c) == (CHOOSE i \in DOMAIN Digits : Digits[i] = c) - 1
IsDigits(s) == \A i \in DOMAIN s : s[i] \in Range(Digits)

RECURSIVE DigitsValue(_)
DigitsValue(s) ==
    IF s = <<>> THEN 0
    ELSE 10 * DigitsValue(SubSeq(s, 1, Len(s) - 1)) + DigitValue(s[Len(s)])

RECURSIVE Pow10(_)
Pow10(n) == IF n = 0 THEN 1 ELSE 10 * Pow10(n - 1)

\* An unsigned decimal literal: digits, digits "." digits or "." digits.
UnsignedLiteral(s) ==
    LET dot == IndexOf(s, ".")
        int == IF dot = 0 THEN s ELSE SubSeq(s, 1, dot - 1)
        frac == IF dot = 0 THEN <<>> ELSE SubSeq(s, dot + 1, Len(s))
    IN  IF IsDigits(int) /\ IsDigits(frac) /\ Len(int) + Len(frac) > 0
        THEN [nan |-> FALSE, num |-> DigitsValue(int \o frac), den |-> Pow10(Len(frac))]
        ELSE NaN

\* Number(text) on texts of digits, signs, dots, blanks and other characters that
\* no numeric literal holds: blanks are trimmed, "" is 0, a decimal literal with an
\* optional sign is its value, anything else is NaN.
Number(s) ==
    LET t == Trim(s)
    IN  IF t = <<>> THEN Num(0)
        ELSE IF Head(t) \in {"+", "-"}
        THEN LET u == UnsignedLiteral(Tail(t))
             IN  IF u.nan THEN NaN
                 ELSE IF Head(t) = "-" THEN [u EXCEPT !.num = 0 - u.num] ELSE u
        ELSE UnsignedLiteral(t)

\* Number(undefined) is NaN.
NumberOf(opt) == IF opt = None THEN NaN ELSE Number(opt[1])

NumLt(a, b) == a.num * b.den < b.num * a.den
NumEq(a, b) == a.num * b.den = b.num * a.den
NumLe(a, b) == NumLt(a, b) \/ NumEq(a, b)
IsInteger(a) == ~a.nan /\ a.num % a.den = 0

RECURSIVE NatText(_)
NatText(n) == IF n < 10 THEN <<Digits[n + 1]>> ELSE NatText(n \div 10) \o <<Digits[(n % 10) + 1]>>

\* `${n}` for an integer n
IntText(n) == IF n < 0 THEN <<"-">> \o NatText(0 - n) ELSE NatText(n)

\* `${item.timestamp}_${item.id}`
EncodeCursor(item) == IntText(item.timestamp) \o <<"_">> \o item.id

\* cursor.split("_"): parts[0], and parts.slice(1).join("_")
CursorPrefix(text) ==
    IF IndexOf(text, "_") = 0 THEN text ELSE SubSeq(text, 1, IndexOf(text, "_") - 1)
CursorSuffix(text) ==
    IF IndexOf(text, "_") = 0 THEN <<>> ELSE SubSeq(text, IndexOf(text, "_") + 1, Len(text))

\* The cursor block of the three listings: an absent or empty cursor is skipped
\* (if (cursor) is false for both); otherwise it is rejected or gives cursorTs and
\* cursorId.
DecodeCursor(cursor) ==
    IF cursor = None \/ cursor[1] = <<>>
    THEN [kind |-> "none", ts |-> NaN, id |-> <<>>]
    ELSE LET ts == Number(CursorPrefix(cursor[1]))
             id == CursorSuffix(cursor[1])
         IN  IF ts.nan \/ NumLe(ts, Num(0)) \/ ~ulidRegex(id)
             THEN [kind |-> "invalid", ts |-> NaN, id |-> <<>>]
             ELSE [kind |-> "ok", ts |-> ts, id |-> id]

DefaultLimit == 50
MaxLimit == 100

NumMax(a, b) == IF NumLt(a, b) THEN b ELSE a
NumMin(a, b) == IF NumLt(a, b) THEN a ELSE b

\* Number.isFinite(limitValue) ? Math.max(1, Math.min(100, limitValue)) : 50
LimitNum(limitParam) ==
    LET limitValue == NumberOf(limitParam)
    IN  IF limitValue.nan THEN Num(DefaultLimit)
        ELSE NumMax(Num(1), NumMin(Num(MaxLimit), limitValue))

-----------------------------------------------------------------------------
(* The paginated listings: GET /api/logs (one local day), GET /api/timeline *)
(* and GET /api/tags/:id/logs. Each is one SELECT.                          *)

\* or(lt(timestamp, cursorTs), and(eq(timestamp, cursorTs), lt(id, cursorId))) with
\* the tie on the timestamp also let through when the IDs are equal
CursorConditionWithEqualId(l, ts, id) ==
    \/ NumLt(Num(l.timestamp), ts)
    \/ NumEq(Num(l.timestamp), ts) /\ (TextLt(l.id, id) \/ l.id = id)

\* the same without the tie-break on the ID
CursorConditionWithoutId(l, ts, id) == NumLt(Num(l.timestamp), ts)

\* or(lt(logs.timestamp, cursorTs), and(eq(logs.timestamp, cursorTs), lt(logs.id, cursorId)))
CursorCondition(l, ts, id) ==
    \/ NumLt(Num(l.timestamp), ts)
    \/ NumEq(Num(l.timestamp), ts) /\ TextLt(l.id, id)

\* orderBy(desc(logs.timestamp), desc(logs.id)): row a comes before row b
RowBefore(a, b) ==
    \/ a.timestamp > b.timestamp
    \/ a.timestamp = b.timestamp /\ TextLt(b.id, a.id)

RECURSIVE SortDesc(_)
SortDesc(rows) ==
    IF rows = {} THEN <<>>
    ELSE LET first == CHOOSE a \in rows : \A b \in rows \ {a} : RowBefore(a, b)
         IN  <<first>> \o SortDesc(rows \ {first})

\* innerJoin(logTags, eq(logs.id, logTags.logId)) where logTags.tagId = id: a log
\* comes once for each of its association rows with the tag.
RECURSIVE JoinTag(_, _, _)
JoinTag(rows, bag, tagId) ==
    IF rows = <<>> THEN <<>>
    ELSE Rep(Head(rows), Count(bag, <<Head(rows).id, tagId>>)) \o JoinTag(Tail(rows), bag, tagId)

\* A listing request: which listing, its filter, limit and cursor parameters. The
\* day listing's window is what the date and tz parameters resolve to.
Query(listing, startUtc, endUtc, types, tagId, limit) ==
    [listing |-> listing, startUtc |-> startUtc, endUtc |-> endUtc, types |-> types,
     tagId |-> tagId, limit |-> limit]

\* The filter conditions of each listing, without the cursor condition.
Matches(q, l, bag) ==
    CASE q.listing = "day" -> q.startUtc <= l.timestamp /\ l.timestamp <= q.endUtc
      [] q.listing = "timeline" -> q.types = <<>> \/ l.type \in Range(q.types)
      [] q.listing = "tag" -> Count(bag, <<l.id, q.tagId>>) > 0

\* .limit(limitNum + 1) without the extra row
FetchCountExact(limitNum) == limitNum

\* .limit(limitNum + 1)
FetchCount(limitNum) == limitNum + 1

Take(rows, n) == SubSeq(rows, 1, IF n < Len(rows) THEN n ELSE Len(rows))

\* The SELECT of a listing with decoded cursor c.
SelectPage(q, c, limitNum, lgs, bag) ==
    LET rows == {l \in lgs : /\ Matches(q, l, bag)
                             /\ c.kind = "ok" => CursorCondition(l, c.ts, c.id)}
        sorted == SortDesc(rows)
    IN  Take(IF q.listing = "tag" THEN JoinTag(sorted, bag, q.tagId) ELSE sorted,
             FetchCount(limitNum))

ErrorPage(status) ==
    [status |-> status, items |-> <<>>, nextCursor |-> None, hasMore |-> FALSE,
     paged |-> FALSE]

\* hasMore, items and nextCursor from the rows the SELECT returned; paged records
\* whether the cursor condition was part of the SELECT.
Paginate(result, limitNum, c) ==
    LET hasMore == Len(result) > limitNum
        items == IF hasMore THEN SubSeq(result, 1, limitNum) ELSE result
    IN  [status |-> 200,
         items |-> items,
         nextCursor |-> IF hasMore /\ Len(items) > 0
                        THEN Some(EncodeCursor(items[Len(items)])) ELSE None,
         hasMore |-> hasMore,
         paged |-> c.kind = "ok"]

\* parseTypes throws on a value that is not a log type.
TypesInvalid(types) == \E i \in DOMAIN types : ~isValidLogType(types[i])

\* A listing handler: parameter checks, limit clamp, cursor decoding, the SELECT
\* and the page. A limit that is not a whole number fails the SELECT.
ListLogs(q, cursor, lgs, bag) ==
    LET c == DecodeCursor(cursor)
        limitNum == LimitNum(q.limit)
    IN  IF q.listing = "tag" /\ ~ulidRegex(q.tagId) THEN ErrorPage(400)
        ELSE IF q.listing = "timeline" /\ TypesInvalid(q.types) THEN ErrorPage(400)
        ELSE IF c.kind = "invalid" THEN ErrorPage(400)
        ELSE IF ~IsInteger(limitNum) THEN ErrorPage(InternalErrorStatus)
        ELSE Paginate(SelectPage(q, c, limitNum.num \div limitNum.den, lgs, bag),
                      limitNum.num \div limitNum.den, c)

-----------------------------------------------------------------------------
(* Requests. A handler runs from one await of a storage statement to the   *)
(* next without interruption, so a step of a request is one statement      *)
(* followed by the handler's code up to the next statement or the answer.  *)
(* A statement that fails throws, and app.onError answers 500.             *)

NoBody == [json |-> TRUE, type |-> None, content |-> None, timestamp |-> None,
           tagIds |-> None, name |-> None, metadata |-> None, createdAt |-> None,
           updatedAt |-> None]

IdleReq == [op |-> "idle", pc |-> "done", id |-> None, body |-> NoBody,
            row |-> None, wrote |-> FALSE, changed |-> {}]

NewReq(op, pc, id, body, row) ==
    [op |-> op, pc |-> pc, id |-> id, body |-> body, row |-> row,
     wrote |-> FALSE, changed |-> {}]

NoReply == [op |-> "none", status |-> 0, resp |-> "none", id |-> None,
            body |-> NoBody, wrote |-> FALSE, changed |-> {}]

\* c.json(..., status): the answer to request r, whose handler then returns.
ReplyTo(r, status, resp) ==
    [op |-> r.op, status |-> status, resp |-> resp, id |-> r.id,
     body |-> r.body, wrote |-> r.wrote, changed |-> r.changed]

Goto(r, pc) == [r EXCEPT !.pc = pc]

\* A mutating statement was sent; tables are the tables whose rows it changed.
Wrote(r, tables) == [r EXCEPT !.wrote = TRUE, !.changed = @ \cup tables]

Changed(table, before, after) == IF before # after THEN {table} ELSE {}

\* The paging client before it lists anything: its request, the cursor of its next
\* page request, what it has appended, the last page it received, and a record of
\* what the other requests did since it began (the matching logs it began with, the
\* logs updated or deleted since, the number of writing statements).
IdleRun ==
    [state |-> "idle", q |-> Query("day", 0, 0, <<>>, <<>>, None), cursor |-> None,
     items |-> <<>>, pages |-> 0, page |-> ErrorPage(0), base |-> {}, touched |-> {},
     writes |-> 0]

\* A writing statement that runs while the client pages is recorded in its run.
Observe(ids) ==
    IF run.state = "paging"
    THEN [run EXCEPT !.touched = @ \cup ids, !.writes = @ + 1]
    ELSE run

CanStart(s) == req[s].pc = "done"

\* The handler of slot s goes on as r, waiting for its next statement.
Continue(s, r) ==
    /\ req' = [req EXCEPT ![s] = r]
    /\ reply' = NoReply

\* The handler of slot s answers and returns; the slot is free again.
Respond(s, r, status, resp) ==
    /\ req' = [req EXCEPT ![s] = IdleReq]
    /\ reply' = ReplyTo(r, status, resp)

\* Date.now(): the clock readings of P that are no earlier than a reading already
\* stored in a row or held by a request under way.
DateNow(P) ==
    {t \in P.clock :
        /\ \A l \in logs : t >= l.updatedAt
        /\ \A s \in DOMAIN req :
              (req[s].op \in {"createLog", "updateLog"} /\ req[s].row # None)
                 => t >= req[s].row[1].updatedAt}

\* ulid(): an ID no earlier call returned. In a workload that never compares IDs
\* the unused IDs are interchangeable and the least one is taken.
Least(ids) == CHOOSE x \in ids : \A y \in ids : ~TextLt(y, x)
FreshIds(pool, anyId) ==
    IF pool \ usedIds = {} THEN {}
    ELSE IF anyId THEN pool \ usedIds
    ELSE {Least(pool \ usedIds)}

\* body.tagIds without the filter
unfilteredTagIds(body) == IF body.tagIds = None THEN <<>> ELSE body.tagIds[1]

\* body.tagIds.filter((tagId) => ulidRegex.test(tagId))
validTagIds(body) ==
    IF body.tagIds = None THEN <<>> ELSE SelectSeq(body.tagIds[1], ulidRegex)

TagRows(logId, body) == [i \in DOMAIN validTagIds(body) |-> <<logId, validTagIds(body)[i]>>]

\* !body.type || !isValidLogType(body.type)
CreateTypeInvalid(body) ==
    body.type = None \/ body.type[1] = "" \/ ~isValidLogType(body.type[1])

\* !body.content || typeof body.content !== "string" || body.content.trim() === ""
CreateContentInvalid(body) ==
    body.content = None \/ body.content[1] = <<>> \/ Trim(body.content[1]) = <<>>

\* POST /api/logs, up to the first statement. P gives the sets inputs are drawn from.
StartCreateLog(s, P) ==
    /\ CanStart(s)
    /\ \E body \in P.createBodies :
        IF ~body.json \/ CreateTypeInvalid(body) \/ CreateContentInvalid(body)
        THEN /\ Respond(s, NewReq("createLog", "done", None, body, None), 400, "error")
             /\ UNCHANGED usedIds
        ELSE \E id \in FreshIds(P.logIds, P.anyId), first \in DateNow(P) :
             \E now \in {t \in DateNow(P) : t >= first} :
             LET newLog == [id |-> id,
                            type |-> body.type[1],
                            content |-> Trim(body.content[1]),
                            timestamp |-> IF body.timestamp # None
                                          THEN body.timestamp[1] ELSE first,
                            metadata |-> IF body.metadata # None
                                         THEN body.metadata[1] ELSE "null",
                            createdAt |-> now,
                            updatedAt |-> now]
             IN  /\ usedIds' = usedIds \cup {id}
                 /\ Continue(s, NewReq("createLog", "insertLog", Some(id), body, Some(newLog)))
    /\ UNCHANGED <<logs, tags, logTags, run, probe>>

\* await db.insert(logs).values(newLog)
CreateLogInsertLog(s) ==
    /\ req[s].op = "createLog" /\ req[s].pc = "insertLog"
    /\ LET r == InsertLog(logs, req[s].row[1])
           w == Wrote(req[s], Changed("logs", logs, r.logs))
       IN  /\ logs' = r.logs
           /\ IF ~r.ok THEN Respond(s, w, InternalErrorStatus, "error")
              ELSE IF Len(validTagIds(req[s].body)) > 0 THEN Continue(s, Goto(w, "insertTags"))
              ELSE Respond(s, w, 201, "log")
    /\ run' = Observe({})
    /\ UNCHANGED <<tags, logTags, usedIds, probe>>

\* await db.insert(logTags).values(validTagIds.map(...))
CreateLogInsertTags(s) ==
    /\ req[s].op = "createLog" /\ req[s].pc = "insertTags"
    /\ LET r == InsertLogTags(logTags, logs, tags, TagRows(req[s].id[1], req[s].body))
           w == Wrote(req[s], Changed("log_tags", logTags, r.logTags))
       IN  /\ logTags' = r.logTags
           /\ IF r.ok THEN Respond(s, w, 201, "log") ELSE Respond(s, w, InternalErrorStatus, "error")
    /\ run' = Observe({})
    /\ UNCHANGED <<logs, tags, usedIds, probe>>

\* PUT /api/logs/:id, up to the first statement.
StartUpdateLog(s, P) ==
    /\ CanStart(s)
    /\ \E id \in P.logPathIds :
        IF ~ulidRegex(id)
        THEN Respond(s, NewReq("updateLog", "done", Some(id), NoBody, None), 400, "error")
        ELSE Continue(s, NewReq("updateLog", "selectExisting", Some(id), NoBody, None))
    /\ UNCHANGED <<logs, tags, logTags, usedIds, run, probe>>

\* The update object: unlike create, content is trimmed and not checked.
UpdatesOf(body, now) ==
    [updatedAt |-> now,
     type |-> body.type,
     content |-> IF body.content # None THEN Some(Trim(body.content[1])) ELSE None,
     timestamp |-> body.timestamp,
     metadata |-> body.metadata]

\* body.type !== undefined && !isValidLogType(body.type)
UpdateTypeInvalid(body) == body.type # None /\ ~isValidLogType(body.type[1])

\* const existing = await db.select()...; then the body is read and checked.
UpdateLogSelectExisting(s, P) ==
    /\ req[s].op = "updateLog" /\ req[s].pc = "selectExisting"
    /\ IF ~\E l \in logs : l.id = req[s].id[1] THEN Respond(s, req[s], 404, "error")
       ELSE \E body \in P.updateBodies :
            LET r == [req[s] EXCEPT !.body = body]
            IN  IF ~body.json \/ UpdateTypeInvalid(body) THEN Respond(s, r, 400, "error")
                ELSE \E now \in DateNow(P) :
                     Continue(s, [Goto(r, "updateLog") EXCEPT
                                     !.row = Some(UpdatesOf(body, now))])
    /\ UNCHANGED <<logs, tags, logTags, usedIds, run, probe>>

\* await db.update(logs).set(updates).where(eq(logs.id, id))
UpdateLogUpdate(s) ==
    /\ req[s].op = "updateLog" /\ req[s].pc = "updateLog"
    /\ LET r == req[s]
           w == Wrote(r, Changed("logs", logs, UpdateLogRow(logs, r.id[1], r.row[1])))
       IN  /\ logs' = UpdateLogRow(logs, r.id[1], r.row[1])
           /\ IF r.body.tagIds # None THEN Continue(s, Goto(w, "deleteTags"))
              ELSE Continue(s, Goto(w, "selectUpdated"))
    /\ run' = Observe({req[s].id[1]})
    /\ UNCHANGED <<tags, logTags, usedIds, probe>>

\* await db.delete(logTags).where(eq(logTags.logId, id))
UpdateLogDeleteTags(s) ==
    /\ req[s].op = "updateLog" /\ req[s].pc = "deleteTags"
    /\ LET r == req[s]
           w == Wrote(r, Changed("log_tags", logTags, DeleteLogTagsOf(logTags, r.id[1])))
       IN  /\ logTags' = DeleteLogTagsOf(logTags, r.id[1])
           /\ IF Len(validTagIds(r.body)) > 0 THEN Continue(s, Goto(w, "insertTags"))
              ELSE Continue(s, Goto(w, "selectUpdated"))
    /\ run' = Observe({req[s].id[1]})
    /\ UNCHANGED <<logs, tags, usedIds, probe>>

\* await db.insert(logTags).values(validTagIds.map(...))
UpdateLogInsertTags(s) ==
    /\ req[s].op = "updateLog" /\ req[s].pc = "insertTags"
    /\ LET r == InsertLogTags(logTags, logs, tags, TagRows(req[s].id[1], req[s].body))
           w == Wrote(req[s], Changed("log_tags", logTags, r.logTags))
       IN  /\ logTags' = r.logTags
           /\ IF r.ok THEN Continue(s, Goto(w, "selectUpdated"))
              ELSE Respond(s, w, InternalErrorStatus, "error")
    /\ run' = Observe({req[s].id[1]})
    /\ UNCHANGED <<logs, tags, usedIds, probe>>

\* const updated = await db.select()...; return c.json(updated[0])
UpdateLogSelectUpdated(s) ==
    /\ req[s].op = "updateLog" /\ req[s].pc = "selectUpdated"
    /\ IF \E l \in logs : l.id = req[s].id[1]
       THEN Respond(s, req[s], 200, "log") ELSE Respond(s, req[s], 200, "empty")
    /\ UNCHANGED <<logs, tags, logTags, usedIds, run, probe>>

\* DELETE /api/logs/:id, up to the first statement.
StartDeleteLog(s, P) ==
    /\ CanStart(s)
    /\ \E id \in P.logPathIds :
        IF ~ulidRegex(id)
        THEN Respond(s, NewReq("deleteLog", "done", Some(id), NoBody, None), 400, "error")
        ELSE Continue(s, NewReq("deleteLog", "selectExisting", Some(id), NoBody, None))
    /\ UNCHANGED <<logs, tags, logTags, usedIds, run, probe>>

\* const existing = await db.select().from(logs).where(eq(logs.id, id)).limit(1)
DeleteLogSelectExisting(s) ==
    /\ req[s].op = "deleteLog" /\ req[s].pc = "selectExisting"
    /\ IF \E l \in logs : l.id = req[s].id[1]
       THEN Continue(s, Goto(req[s], "deleteLog")) ELSE Respond(s, req[s], 404, "error")
    /\ UNCHANGED <<logs, tags, logTags, usedIds, run, probe>>

\* await db.delete(logs).where(eq(logs.id, id))
DeleteLogDelete(s) ==
    /\ req[s].op = "deleteLog" /\ req[s].pc = "deleteLog"
    /\ LET r == DeleteLogRow(logs, logTags, req[s].id[1])
           w == Wrote(req[s], Changed("logs", logs, r.logs) \cup Changed("log_tags", logTags, r.logTags))
       IN  /\ logs' = r.logs
           /\ logTags' = r.logTags
           /\ Respond(s, w, 200, "success")
    /\ run' = Observe({req[s].id[1]})
    /\ UNCHANGED <<tags, usedIds, probe>>

\* !body.name || typeof body.name !== "string" || body.name.trim() === ""
NameInvalid(body) == body.name = None \/ body.name[1] = <<>> \/ Trim(body.name[1]) = <<>>

\* POST /api/tags, up to the first statement.
StartCreateTag(s, P) ==
    /\ CanStart(s)
    /\ \E body \in P.tagBodies :
        IF ~body.json \/ NameInvalid(body)
        THEN Respond(s, NewReq("createTag", "done", None, body, None), 400, "error")
        ELSE Continue(s, NewReq("createTag", "selectName", None, body, None))
    /\ UNCHANGED <<logs, tags, logTags, usedIds, run, probe>>

NameUntrimmed(body) == body.name[1]

\* const name = body.name.trim()
CheckedName(body) == Trim(body.name[1])

\* const existing = await db.select().from(tags).where(eq(tags.name, name)).limit(1);
\* then the ID is made and the row built.
CreateTagSelectName(s, P) ==
    /\ req[s].op = "createTag" /\ req[s].pc = "selectName"
    /\ LET r == req[s]
           name == CheckedName(r.body)
       IN  IF \E t \in tags : t.name = name
           THEN /\ Respond(s, r, 409, "error")
                /\ UNCHANGED usedIds
           ELSE \E id \in FreshIds(P.tagIds, P.anyId) :
                /\ usedIds' = usedIds \cup {id}
                /\ Continue(s, [Goto(r, "insertTag") EXCEPT
                                   !.id = Some(id),
                                   !.row = Some([id |-> id, name |-> Trim(r.body.name[1])])])
    /\ UNCHANGED <<logs, tags, logTags, run, probe>>

\* await db.insert(tags).values(newTag)
CreateTagInsert(s) ==
    /\ req[s].op = "createTag" /\ req[s].pc = "insertTag"
    /\ LET r == InsertTag(tags, req[s].row[1])
           w == Wrote(req[s], Changed("tags", tags, r.tags))
       IN  /\ tags' = r.tags
           /\ IF r.ok THEN Respond(s, w, 201, "tag") ELSE Respond(s, w, InternalErrorStatus, "error")
    /\ run' = Observe({})
    /\ UNCHANGED <<logs, logTags, usedIds, probe>>

\* DELETE /api/tags/:id, up to the first statement.
StartDeleteTag(s, P) ==
    /\ CanStart(s)
    /\ \E id \in P.tagPathIds :
        IF ~ulidRegex(id)
        THEN Respond(s, NewReq("deleteTag", "done", Some(id), NoBody, None), 400, "error")
        ELSE Continue(s, NewReq("deleteTag", "selectExisting", Some(id), NoBody, None))
    /\ UNCHANGED <<logs, tags, logTags, usedIds, run, probe>>

\* const existing = await db.select().from(tags).where(eq(tags.id, id)).limit(1)
DeleteTagSelectExisting(s) ==
    /\ req[s].op = "deleteTag" /\ req[s].pc = "selectExisting"
    /\ IF \E t \in tags : t.id = req[s].id[1]
       THEN Continue(s, Goto(req[s], "deleteTag")) ELSE Respond(s, req[s], 404, "error")
    /\ UNCHANGED <<logs, tags, logTags, usedIds, run, probe>>

\* await db.delete(tags).where(eq(tags.id, id))
DeleteTagDelete(s) ==
    /\ req[s].op = "deleteTag" /\ req[s].pc = "deleteTag"
    /\ LET r == DeleteTagRow(tags, logTags, req[s].id[1])
           w == Wrote(req[s], Changed("tags", tags, r.tags) \cup Changed("log_tags", logTags, r.logTags))
       IN  /\ tags' = r.tags
           /\ logTags' = r.logTags
           /\ Respond(s, w, 200, "success")
    /\ run' = Observe({p[1] : p \in {q \in DOMAIN logTags : q[2] = req[s].id[1]}})
    /\ UNCHANGED <<logs, usedIds, probe>>

\* GET /api/logs/:id, up to the first statement.
StartGetLog(s, P) ==
    /\ CanStart(s)
    /\ \E id \in P.logPathIds :
        IF ~ulidRegex(id)
        THEN Respond(s, NewReq("getLog", "done", Some(id), NoBody, None), 400, "error")
        ELSE Continue(s, NewReq("getLog", "selectExisting", Some(id), NoBody, None))
    /\ UNCHANGED <<logs, tags, logTags, usedIds, run, probe>>

\* const result = await db.select().from(logs).where(eq(logs.id, id)).limit(1)
GetLogSelectExisting(s) ==
    /\ req[s].op = "getLog" /\ req[s].pc = "selectExisting"
    /\ IF \E l \in logs : l.id = req[s].id[1]
       THEN Continue(s, Goto(req[s], "selectTags")) ELSE Respond(s, req[s], 404, "error")
    /\ UNCHANGED <<logs, tags, logTags, usedIds, run, probe>>

\* const tagIds = await db.select(...).from(logTags).where(eq(logTags.logId, id))
GetLogSelectTags(s) ==
    /\ req[s].op = "getLog" /\ req[s].pc = "selectTags"
    /\ Respond(s, req[s], 200, "log")
    /\ UNCHANGED <<logs, tags, logTags, usedIds, run, probe>>

\* GET /api/tags/:id/logs as a request of a connection, up to its SELECT: the ID and
\* the cursor are checked.
StartListTagLogs(s, P) ==
    /\ CanStart(s)
    /\ \E id \in P.tagPathIds, cursor \in P.cursors :
        LET r == NewReq("listTagLogs", "select", Some(id), NoBody, Some(cursor))
        IN  IF ~ulidRegex(id) \/ DecodeCursor(cursor).kind = "invalid"
            THEN Respond(s, Goto(r, "done"), 400, "error")
            ELSE Continue(s, r)
    /\ UNCHANGED <<logs, tags, logTags, usedIds, run, probe>>

\* The SELECT of the tag listing and its page.
ListTagLogsSelect(s) ==
    /\ req[s].op = "listTagLogs" /\ req[s].pc = "select"
    /\ Respond(s, req[s],
               ListLogs(Query("tag", 0, 0, <<>>, req[s].id[1], None), req[s].row[1],
                        logs, logTags).status,
               "page")
    /\ UNCHANGED <<logs, tags, logTags, usedIds, run, probe>>

-----------------------------------------------------------------------------
(* The write workload: create, update and delete requests on MaxRequests   *)
(* connections, interleaved statement by statement.                        *)

\* An ID-shaped path or body value that fails the pattern (it holds an I).
MalformedId == Rep("0", UlidLen - 1) \o <<"I">>

LogBody(type, content, timestamp, tagIds) ==
    [NoBody EXCEPT !.type = type, !.content = content, !.timestamp = timestamp,
                   !.tagIds = tagIds]

TagBody(name) == [NoBody EXCEPT !.name = name]

BadJson == [NoBody EXCEPT !.json = FALSE]

WriteLogIds == {IdText(LogIdChars[i]) : i \in 1..MaxWriteLogs}
WriteTagIds == {IdText(TagIdChars[i]) : i \in 1..MaxWriteTags}

\* One connection, many kinds of request body.
SerialProfile ==
    [slots |-> {1},
     logIds |-> WriteLogIds,
     tagIds |-> WriteTagIds,
     createBodies |->
        {BadJson,
         LogBody(None, Some(<<"a">>), None, None),
         LogBody(Some("snack"), Some(<<"a">>), None, None),
         LogBody(Some("meal"), None, None, None),
         LogBody(Some("meal"), Some(<<>>), None, None),
         LogBody(Some("meal"), Some(<<" ">>), None, None),
         LogBody(Some("meal"), Some(<<" ", "a">>), None, None),
         LogBody(Some("meal"), Some(<<"a">>), None, Some(<<>>)),
         LogBody(Some("meal"), Some(<<"a">>), None, Some(<<MalformedId>>))}
        \cup {LogBody(Some("meal"), Some(<<"a">>), None, Some(<<t>>)) : t \in WriteTagIds}
        \cup {LogBody(Some("meal"), Some(<<"a">>), None, Some(<<MalformedId, t>>)) :
                 t \in WriteTagIds}
        \cup {LogBody(Some("meal"), Some(<<"a">>), None, Some(<<t, t>>)) : t \in WriteTagIds}
        \cup {LogBody(Some("meal"), Some(<<"a">>), None, Some(<<t, u>>)) :
                 <<t, u>> \in {p \in WriteTagIds \X WriteTagIds : p[1] # p[2]}},
     updateBodies |->
        {BadJson,
         LogBody(None, None, None, None),
         LogBody(Some("snack"), None, None, None),
         LogBody(Some(""), None, None, None),
         LogBody(Some("bookmark"), None, None, None),
         LogBody(None, Some(<<>>), None, None),
         LogBody(None, Some(<<" ">>), None, None),
         LogBody(Some("bookmark"), Some(<<"a", " ">>), None, Some(<<>>))}
        \cup {LogBody(None, None, None, Some(<<t>>)) : t \in WriteTagIds}
        \cup {LogBody(None, None, None, Some(<<t, t>>)) : t \in WriteTagIds}
        \cup {LogBody(Some("bookmark"), None, None, Some(<<t, t>>)) : t \in WriteTagIds}
        \cup {LogBody(None, None, None, Some(<<MalformedId, t>>)) : t \in WriteTagIds},
     tagBodies |-> {BadJson, TagBody(Some(<<" ">>)), TagBody(Some(<<"a">>)),
                    TagBody(Some(<<"b">>))},
     logPathIds |-> WriteLogIds \cup {MalformedId},
     tagPathIds |-> WriteTagIds \cup {MalformedId},
     clock |-> {1},
     anyId |-> FALSE]

\* MaxRequests connections, few kinds of request body.
RaceProfile ==
    [slots |-> 1..MaxRequests,
     logIds |-> WriteLogIds,
     tagIds |-> WriteTagIds,
     createBodies |->
        {LogBody(Some("snack"), Some(<<"a">>), None, None),
         LogBody(Some("meal"), Some(<<" ", "a">>), None, None)}
        \cup {LogBody(Some("meal"), Some(<<"a">>), None, Some(<<MalformedId, t>>)) :
                 t \in WriteTagIds},
     updateBodies |->
        {LogBody(Some("snack"), None, None, None),
         LogBody(None, Some(<<"a">>), None, Some(<<>>))}
        \cup {LogBody(None, None, None, Some(<<t>>)) : t \in WriteTagIds},
     tagBodies |-> {TagBody(Some(<<"a">>)), TagBody(Some(<<" ", "a">>))},
     logPathIds |-> WriteLogIds \cup {MalformedId},
     tagPathIds |-> WriteTagIds \cup {MalformedId},
     clock |-> {1},
     anyId |-> FALSE]

Init ==
    /\ logs = {}
    /\ tags = {}
    /\ logTags = EmptyBag
    /\ usedIds = {}
    /\ req = [s \in 1..MaxRequests |-> IdleReq]
    /\ reply = NoReply
    /\ run = IdleRun
    /\ probe = None

\* The requests of profile P, a statement at a time.
Requests(P) ==
    \E s \in P.slots :
        \/ StartCreateLog(s, P)
        \/ CreateLogInsertLog(s)
        \/ CreateLogInsertTags(s)
        \/ StartUpdateLog(s, P)
        \/ UpdateLogSelectExisting(s, P)
        \/ UpdateLogUpdate(s)
        \/ UpdateLogDeleteTags(s)
        \/ UpdateLogInsertTags(s)
        \/ UpdateLogSelectUpdated(s)
        \/ StartDeleteLog(s, P)
        \/ DeleteLogSelectExisting(s)
        \/ DeleteLogDelete(s)
        \/ StartCreateTag(s, P)
        \/ CreateTagSelectName(s, P)
        \/ CreateTagInsert(s)
        \/ StartDeleteTag(s, P)
        \/ DeleteTagSelectExisting(s)
        \/ DeleteTagDelete(s)

Next == Requests(RaceProfile)

Spec == Init /\ [][Next]_vars

NextSerial == Requests(SerialProfile)

\* The tag requests alone, on MaxRequests connections, with many kinds of name.
TagProfile ==
    [slots |-> 1..MaxRequests,
     tagIds |-> TagIdPool,
     tagBodies |->
        {BadJson, TagBody(None), TagBody(Some(<<>>)), TagBody(Some(<<" ">>)),
         TagBody(Some(<<"a">>)), TagBody(Some(<<" ", "a", " ">>)), TagBody(Some(<<"A">>))},
     tagPathIds |-> TagIdPool \cup {MalformedId},
     anyId |-> FALSE]

NextTags ==
    \E s \in TagProfile.slots :
        \/ StartCreateTag(s, TagProfile)
        \/ CreateTagSelectName(s, TagProfile)
        \/ CreateTagInsert(s)
        \/ StartDeleteTag(s, TagProfile)
        \/ DeleteTagSelectExisting(s)
        \/ DeleteTagDelete(s)

SpecSerial == Init /\ [][NextSerial]_vars

SpecTags == Init /\ [][NextTags]_vars

-----------------------------------------------------------------------------
(* The paging client: the first page without a cursor, then "load more" with *)
(* the nextCursor of the page before while hasMore is true.                  *)

MaxPages == 5       \* page requests of one paging run
MaxRunWrites == 2   \* writing statements while the client pages

ItemKey(l) == [id |-> l.id, timestamp |-> l.timestamp]
ItemKeys(rows) == [i \in DOMAIN rows |-> ItemKey(rows[i])]

\* The client opens a listing, at a moment when no other request is under way:
\* nothing loaded, no cursor.
StartRun(P) ==
    /\ run.state = "idle"
    /\ \A s \in P.slots : CanStart(s)
    /\ \E q \in P.queries :
        run' = [IdleRun EXCEPT
                   !.state = "paging",
                   !.q = q,
                   !.base = {l.id : l \in {m \in logs : Matches(q, m, logTags)}}]
    /\ reply' = NoReply
    /\ UNCHANGED <<logs, tags, logTags, usedIds, req, probe>>

\* One page request and its answer: the items are appended, the cursor and hasMore
\* are kept for the next request; an error answer ends the run.
FetchPage ==
    /\ run.state = "paging"
    /\ run.pages < MaxPages
    /\ LET page == ListLogs(run.q, run.cursor, logs, logTags)
       IN  run' = [run EXCEPT
                      !.page = [page EXCEPT !.items = ItemKeys(page.items)],
                      !.items = @ \o ItemKeys(page.items),
                      !.pages = @ + 1,
                      !.cursor = page.nextCursor,
                      !.state = IF page.status # 200 THEN "failed"
                                ELSE IF page.hasMore THEN "paging" ELSE "done"]
    /\ reply' = NoReply
    /\ UNCHANGED <<logs, tags, logTags, usedIds, req, probe>>

PagingTagId == IdText(TagIdChars[1])

\* One connection writes while the client pages: meals with the tag and timestamps
\* 1..MaxTs, thoughts without it; IDs come in any order.
PagingProfile ==
    [slots |-> {1},
     logIds |-> LogIdPool,
     tagIds |-> {PagingTagId},
     createBodies |->
        {LogBody(Some("meal"), Some(<<"a">>), Some(ts), Some(<<PagingTagId>>)) : ts \in 1..MaxTs}
        \cup {LogBody(Some("thought"), Some(<<"a">>), Some(MaxTs), None)},
     updateBodies |-> {LogBody(None, None, Some(1), Some(<<>>))},
     tagBodies |-> {TagBody(Some(<<"a">>))},
     logPathIds |-> LogIdPool,
     clock |-> {1},
     anyId |-> TRUE,
     queries |->
        {Query("day", 1, 1, <<>>, <<>>, Some(<<"2">>)),
         Query("timeline", 0, 0, <<>>, <<>>, Some(<<"1">>)),
         Query("timeline", 0, 0, <<"meal">>, <<>>, None),
         Query("tag", 0, 0, <<>>, PagingTagId, Some(<<"1">>))}]

\* The requests that write logs and create the tag go on until the paging run has
\* ended or MaxRunWrites statements have written during it.
NextPaging ==
    \/ StartRun(PagingProfile)
    \/ FetchPage
    \/ /\ run.state = "idle" \/ (run.state = "paging" /\ run.writes < MaxRunWrites)
       /\ \E s \in PagingProfile.slots :
            \/ StartCreateLog(s, PagingProfile)
            \/ CreateLogInsertLog(s)
            \/ CreateLogInsertTags(s)
            \/ StartUpdateLog(s, PagingProfile)
            \/ UpdateLogSelectExisting(s, PagingProfile)
            \/ UpdateLogUpdate(s)
            \/ UpdateLogDeleteTags(s)
            \/ UpdateLogSelectUpdated(s)
            \/ StartDeleteLog(s, PagingProfile)
            \/ DeleteLogSelectExisting(s)
            \/ DeleteLogDelete(s)
            \/ StartCreateTag(s, PagingProfile)
            \/ CreateTagSelectName(s, PagingProfile)
            \/ CreateTagInsert(s)

SpecPaging == Init /\ [][NextPaging]_vars

-----------------------------------------------------------------------------
(* Cursor values sent to the listings by hand: a prefix, and after the first *)
(* underscore a suffix.                                                      *)

CursorLogId == IdText(LogIdChars[2])

CursorPrefixes ==
    {<<>>, <<"0">>, <<"1">>, <<"1", "2">>, <<"-", "1">>, <<"1", ".", "5">>,
     <<"1", ".", "0">>, <<" ", "1">>, <<"+", "1">>, <<"a">>, <<"1", "a">>, <<".">>}

CursorSuffixes ==
    {<<>>, CursorLogId, MalformedId, Tail(CursorLogId), CursorLogId \o <<"0">>,
     CursorLogId \o <<"_">>, <<"_">> \o CursorLogId}

CursorTexts ==
    CursorPrefixes \cup {a \o <<"_">> \o b : a \in CursorPrefixes, b \in CursorSuffixes}

CursorProfile ==
    [queries |->
        {Query("day", 1, 1, <<>>, <<>>, None),
         Query("timeline", 0, 0, <<>>, <<>>, None),
         Query("tag", 0, 0, <<>>, PagingTagId, None)},
     cursors |-> {None} \cup {Some(t) : t \in CursorTexts}]

\* What a listing did with the cursor parameter of one request.
Outcome(page) ==
    IF page.status # 200 THEN "rejected"
    ELSE IF page.paged THEN "accepted" ELSE "ignored"

\* One listing request with a cursor parameter written by hand.
ProbeCursor(P) ==
    /\ \E q \in P.queries, cursor \in P.cursors :
        probe' = Some([listing |-> q.listing, cursor |-> cursor,
                       status |-> ListLogs(q, cursor, logs, logTags).status,
                       outcome |-> Outcome(ListLogs(q, cursor, logs, logTags))])
    /\ reply' = NoReply
    /\ UNCHANGED <<logs, tags, logTags, usedIds, req, run>>

NextCursor == ProbeCursor(CursorProfile)

SpecCursor == Init /\ [][NextCursor]_vars

-----------------------------------------------------------------------------
(* Properties of the listings.                                             *)

ItemIds(items) == {items[i].id : i \in DOMAIN items}

\* C1: while nothing writes during a paging run, the pages appended so far hold no
\* entry twice and are in strictly descending order of (timestamp, id).
C1_NoDuplicateAndOrdered ==
    run.writes = 0 =>
        \A i, j \in DOMAIN run.items :
            i < j => /\ run.items[i].id # run.items[j].id
                     /\ \/ run.items[i].timestamp > run.items[j].timestamp
                        \/ /\ run.items[i].timestamp = run.items[j].timestamp
                           /\ TextLt(run.items[j].id, run.items[i].id)

\* A run of three pages over three entries, two of them with the same timestamp on
\* either side of a page boundary, that ended with hasMore = false.
C1_Witness ==
    /\ run.state = "done" /\ run.writes = 0
    /\ run.pages = 3 /\ Len(run.items) = 3
    /\ run.items[1].timestamp = run.items[2].timestamp
    /\ run.items[2].timestamp > run.items[3].timestamp

\* C2: when a paging run has ended with hasMore = false, every matching entry that
\* was there when it began and was not updated or deleted since is in the pages
\* exactly once, and no entry that was not updated is in the pages twice, whatever
\* was inserted between the page requests.
C2_NoGapUnderInserts ==
    run.state = "done" =>
        /\ \A id \in run.base \ run.touched :
              Cardinality({i \in DOMAIN run.items : run.items[i].id = id}) = 1
        /\ \A i, j \in DOMAIN run.items :
              i < j /\ run.items[i].id = run.items[j].id => run.items[i].id \in run.touched

\* A finished run of several pages during which one log was inserted ahead of the
\* cursor (it is in no page) and one behind it (it is in a page), next to entries
\* from before the run.
C2_Witness ==
    /\ run.state = "done" /\ run.pages >= 2 /\ run.writes > 0
    /\ run.base \ run.touched # {}
    /\ \E l \in logs : /\ Matches(run.q, l, logTags)
                       /\ l.id \notin run.base
                       /\ l.id \notin ItemIds(run.items)
    /\ \E i \in DOMAIN run.items : run.items[i].id \notin run.base

\* C3: a cursor parameter is accepted exactly when its prefix is a positive whole
\* number and its suffix matches the ID pattern, and is rejected otherwise; no
\* value of the parameter, the empty one included, is answered as if it were absent.
C3_CursorAcceptedIff ==
    (probe # None /\ probe[1].cursor # None) =>
        LET text == probe[1].cursor[1]
            prefix == Number(CursorPrefix(text))
        IN  /\ probe[1].outcome \in {"accepted", "rejected"}
            /\ probe[1].outcome = "accepted" <=>
                  /\ IsInteger(prefix) /\ prefix.num > 0
                  /\ ulidRegex(CursorSuffix(text))

\* C4: a page holds at most the effective limit of items; hasMore is true exactly
\* when a matching entry sorts after the last item of the page; nextCursor is there
\* exactly when hasMore is true and is then "{timestamp}_{id}" of the last item.
C4_PageShape ==
    [][(run'.pages # run.pages /\ run'.page.status = 200) =>
        LET page == run'.page
            n == Len(page.items)
        IN  /\ n <= LimitNum(run.q.limit).num
            /\ page.hasMore <=>
                  /\ n > 0
                  /\ \E l \in logs : /\ Matches(run.q, l, logTags)
                                     /\ RowBefore(page.items[n], l)
            /\ page.nextCursor # None <=> page.hasMore
            /\ page.hasMore =>
                  page.nextCursor =
                      Some(IntText(page.items[n].timestamp) \o <<"_">> \o page.items[n].id)
      ]_vars

\* A first page that is full, with hasMore and the cursor of its last item.
C4_Witness ==
    /\ run.pages = 1 /\ run.page.status = 200
    /\ run.page.hasMore /\ Len(run.page.items) = 2
    /\ run.page.nextCursor = Some(EncodeCursor(run.page.items[2]))
    /\ run.writes = 0

-----------------------------------------------------------------------------
(* Properties of the write workload.                                       *)

\* The slot whose handler takes this step.
Steps(s, op, pc) == req[s].op = op /\ req[s].pc = pc /\ req'[s] # req[s]

AssociationsOfLog(bag, id) == {p \in DOMAIN bag : p[1] = id}
AssociationsOfTag(bag, id) == {p \in DOMAIN bag : p[2] = id}

\* C5: in every reachable state of interleaved create-log, update-log, delete-log,
\* create-tag and delete-tag requests, every log_tags row names a stored log and a
\* stored tag, and no (logId, tagId) pair is stored in more than one row.
C5_AssociationsIntact ==
    \A p \in DOMAIN logTags :
        /\ p[1] \in LogIdsOf(logs)
        /\ p[2] \in TagIdsOf(tags)
        /\ logTags[p] = 1

\* An insert of associations was refused while associations are stored.
C5_Witness ==
    /\ reply.op = "updateLog"
    /\ reply.status = InternalErrorStatus
    /\ logTags # EmptyBag

\* C6: the DELETE of a log removes the log and every association of that log and
\* nothing else; the DELETE of a tag removes the tag and every association of that
\* tag and nothing else.
C6_DeleteFrame ==
    [][\A s \in 1..MaxRequests :
        /\ Steps(s, "deleteLog", "deleteLog") =>
             /\ logs' = {l \in logs : l.id # req[s].id[1]}
             /\ tags' = tags
             /\ AssociationsOfLog(logTags', req[s].id[1]) = {}
             /\ \A p \in DOMAIN logTags :
                    p[1] # req[s].id[1] => p \in DOMAIN logTags' /\ logTags'[p] = logTags[p]
             /\ DOMAIN logTags' \subseteq DOMAIN logTags
        /\ Steps(s, "deleteTag", "deleteTag") =>
             /\ tags' = {t \in tags : t.id # req[s].id[1]}
             /\ logs' = logs
             /\ AssociationsOfTag(logTags', req[s].id[1]) = {}
             /\ \A p \in DOMAIN logTags :
                    p[2] # req[s].id[1] => p \in DOMAIN logTags' /\ logTags'[p] = logTags[p]
             /\ DOMAIN logTags' \subseteq DOMAIN logTags
      ]_vars

\* A log was deleted together with its associations while another log keeps its own.
C6_Witness ==
    /\ reply.op = "deleteLog"
    /\ reply.status = 200
    /\ reply.changed = {"logs", "log_tags"}
    /\ logTags # EmptyBag
    /\ tags # {}

\* C7: when the name check of a create-tag request finds a tag whose name equals
\* the request's trimmed name (exact, case-sensitive), the request is answered 409
\* and has changed nothing; a request whose name is empty after trimming is
\* answered 400 and has changed nothing.
C7_DuplicateOrEmptyName ==
    [][/\ \A s \in 1..MaxRequests :
            (/\ Steps(s, "createTag", "selectName")
             /\ \E t \in tags : t.name = Trim(req[s].body.name[1]))
            => /\ reply'.status = 409
               /\ ~reply'.wrote
               /\ tags' = tags
       /\ (/\ reply'.op = "createTag"
           /\ reply'.body.json
           /\ NameInvalid(reply'.body))
          => /\ reply'.status = 400
             /\ ~reply'.wrote
             /\ tags' = tags
      ]_vars

\* A name with surrounding blanks was refused as a duplicate of a stored tag.
C7_Witness ==
    /\ reply.op = "createTag"
    /\ reply.status = 409
    /\ reply.body.name[1] # Trim(reply.body.name[1])
    /\ \E t \in tags : t.name = Trim(reply.body.name[1])

\* C8: no two stored tags share a name in any reachable state, also when create-tag
\* requests for one trimmed name interleave between name check and insert; a
\* create-tag request that stores no tag has changed no table.
C8_NamesUnique ==
    /\ \A t, u \in tags : t.name = u.name => t = u
    /\ (reply.op = "createTag" /\ reply.status # 201) => reply.changed = {}

\* A create-tag request passed the name check and lost the insert to another one.
C8_Witness ==
    /\ reply.op = "createTag"
    /\ reply.wrote
    /\ reply.status # 201
    /\ \E t \in tags : t.name = Trim(reply.body.name[1])

\* C9: every stored log has a type of the closed set and a content that is neither
\* empty nor blank.
C9_TypeAndContent ==
    \A l \in logs : isValidLogType(l.type) /\ Trim(l.content) # <<>>

\* C10: a create-log, update-log, delete-log, create-tag or delete-tag request
\* answered 400, 404 or 409 has sent no mutating statement.
C10_NoWriteBeforeClientError ==
    reply.status \in {400, 404, 409} => ~reply.wrote /\ reply.changed = {}

\* An update of a stored log was refused for its type after the existence check.
C10_Witness ==
    /\ reply.op = "updateLog"
    /\ reply.status = 400
    /\ reply.body.type # None
    /\ logs # {}

-----------------------------------------------------------------------------
(* Create and update requests on one connection with a clock that moves, and *)
(* bodies that supply each field alone, metadata, and createdAt/updatedAt.   *)

MaxClock == 2       \* Date.now() reads 1..MaxClock

\* A value of createdAt or updatedAt in a body; the clock never reads it.
CallerTime == 0

FieldsProfile ==
    [slots |-> {1},
     logIds |-> WriteLogIds,
     createBodies |->
        {LogBody(Some("meal"), Some(<<"a">>), None, None),
         [LogBody(Some("meal"), Some(<<"a">>), Some(1), None) EXCEPT
             !.metadata = Some("m1"), !.createdAt = Some(CallerTime),
             !.updatedAt = Some(CallerTime)]},
     updateBodies |->
        {LogBody(None, None, None, None),
         LogBody(Some("bookmark"), None, None, None),
         LogBody(None, Some(<<"b">>), None, None),
         LogBody(None, None, Some(2), None),
         [NoBody EXCEPT !.metadata = Some("null")],
         [LogBody(None, Some(<<"b">>), None, None) EXCEPT !.updatedAt = Some(CallerTime)]},
     logPathIds |-> WriteLogIds,
     clock |-> 1..MaxClock,
     anyId |-> FALSE]

NextFields ==
    \E s \in FieldsProfile.slots :
        \/ StartCreateLog(s, FieldsProfile)
        \/ CreateLogInsertLog(s)
        \/ StartUpdateLog(s, FieldsProfile)
        \/ UpdateLogSelectExisting(s, FieldsProfile)
        \/ UpdateLogUpdate(s)
        \/ UpdateLogSelectUpdated(s)

SpecFields == Init /\ [][NextFields]_vars

-----------------------------------------------------------------------------
(* Requests with an ID in the path, well-formed or not, of an entity that is *)
(* stored or not, on one connection.                                         *)

PathIds(pool) ==
    pool \cup {MalformedId,
               Tail(MalformedId),
               IdText("7") \o <<"0">>,
               Rep("0", UlidLen - 1) \o <<"c">>}

IdsProfile ==
    [slots |-> {1},
     logIds |-> WriteLogIds,
     tagIds |-> WriteTagIds,
     createBodies |-> {LogBody(Some("meal"), Some(<<"a">>), None, None)}
                      \cup {LogBody(Some("meal"), Some(<<"a">>), None, Some(<<t>>)) :
                               t \in WriteTagIds},
     updateBodies |-> {LogBody(Some("bookmark"), None, None, None)},
     tagBodies |-> {TagBody(Some(<<"a">>))},
     logPathIds |-> PathIds(WriteLogIds),
     tagPathIds |-> PathIds(WriteTagIds),
     cursors |-> {None},
     clock |-> {1},
     anyId |-> FALSE]

NextIds ==
    \E s \in IdsProfile.slots :
        \/ StartCreateLog(s, IdsProfile)
        \/ CreateLogInsertLog(s)
        \/ CreateLogInsertTags(s)
        \/ StartCreateTag(s, IdsProfile)
        \/ CreateTagSelectName(s, IdsProfile)
        \/ CreateTagInsert(s)
        \/ StartGetLog(s, IdsProfile)
        \/ GetLogSelectExisting(s)
        \/ GetLogSelectTags(s)
        \/ StartUpdateLog(s, IdsProfile)
        \/ UpdateLogSelectExisting(s, IdsProfile)
        \/ UpdateLogUpdate(s)
        \/ UpdateLogSelectUpdated(s)
        \/ StartDeleteLog(s, IdsProfile)
        \/ DeleteLogSelectExisting(s)
        \/ DeleteLogDelete(s)
        \/ StartDeleteTag(s, IdsProfile)
        \/ DeleteTagSelectExisting(s)
        \/ DeleteTagDelete(s)
        \/ StartListTagLogs(s, IdsProfile)
        \/ ListTagLogsSelect(s)

SpecIds == Init /\ [][NextIds]_vars

-----------------------------------------------------------------------------
(* Properties of update-log.                                               *)

\* C11: an update-log request that supplies tagIds and is answered 200 leaves the
\* log with exactly the supplied IDs that pass the ID pattern; one that does not
\* supply tagIds changes no association; no step of an update-log request changes
\* the associations of another log.
C11_TagIdsReplace ==
    [][/\ \A s \in 1..MaxRequests :
            (req[s].op = "updateLog" /\ req'[s] # req[s] /\ req[s].id # None) =>
                /\ \A p \in (DOMAIN logTags) \cup (DOMAIN logTags') :
                      p[1] # req[s].id[1] => Count(logTags', p) = Count(logTags, p)
                /\ req'[s].body.tagIds = None => logTags' = logTags
       /\ (reply'.op = "updateLog" /\ reply'.status = 200 /\ reply'.body.tagIds # None) =>
            /\ AssociationsOfLog(logTags', reply'.id[1]) =
                  {<<reply'.id[1], t>> : t \in Range(validTagIds(reply'.body))}
            /\ \A p \in AssociationsOfLog(logTags', reply'.id[1]) : logTags'[p] = 1
      ]_vars

\* An update with a malformed and a well-formed tag ID was answered 200 for a log
\* that now has that one tag, while another log has its own association.
C11_Witness ==
    /\ reply.op = "updateLog" /\ reply.status = 200
    /\ reply.body.tagIds # None
    /\ Len(reply.body.tagIds[1]) = 2 /\ Len(validTagIds(reply.body)) = 1
    /\ AssociationsOfLog(logTags, reply.id[1]) # {}
    /\ \E p \in DOMAIN logTags : p[1] # reply.id[1]

-----------------------------------------------------------------------------
(* Properties of create-log and of the ID checks.                          *)

\* C13: a create-log request whose tagIds hold an entry that fails the ID pattern,
\* the other entries being distinct IDs of existing tags, is answered 201; the log
\* is stored and its associations are exactly the entries that pass the pattern.
C13_MalformedTagIdsIgnored ==
    (/\ reply.op = "createLog" /\ reply.body.json /\ reply.body.tagIds # None
     /\ ~CreateTypeInvalid(reply.body) /\ ~CreateContentInvalid(reply.body)
     /\ \E i \in DOMAIN reply.body.tagIds[1] : ~ulidRegex(reply.body.tagIds[1][i])
     /\ \A i, j \in DOMAIN reply.body.tagIds[1] :
           LET t == reply.body.tagIds[1][i]
           IN  ulidRegex(t) => /\ t \in TagIdsOf(tags)
                               /\ (t = reply.body.tagIds[1][j] => i = j))
    => /\ reply.status = 201
       /\ \E l \in logs : l.id = reply.id[1]
       /\ AssociationsOfLog(logTags, reply.id[1]) =
             {<<reply.id[1], t>> : t \in {u \in Range(reply.body.tagIds[1]) : ulidRegex(u)}}
       /\ \A p \in AssociationsOfLog(logTags, reply.id[1]) : logTags[p] = 1

\* A log was created with tagIds of a malformed entry and the ID of an existing
\* tag, and has that one association.
C13_Witness ==
    /\ reply.op = "createLog" /\ reply.status = 201
    /\ reply.body.tagIds # None /\ Len(reply.body.tagIds[1]) = 2
    /\ \E i \in DOMAIN reply.body.tagIds[1] : ~ulidRegex(reply.body.tagIds[1][i])
    /\ Cardinality(AssociationsOfLog(logTags, reply.id[1])) = 1

IdOps == {"getLog", "updateLog", "deleteLog", "deleteTag", "listTagLogs"}

WellFormedId(id) == Len(id) = 26 /\ \A i \in DOMAIN id : id[i] \in UlidAlphabet

\* C14: a get-log, update-log, delete-log, delete-tag or list-by-tag request whose
\* path ID is not 26 characters of the ID alphabet is answered 400 in its first
\* step and never reaches a statement; a get-log, update-log, delete-log or
\* delete-tag request with a well-formed ID of nothing stored is answered 404 at its
\* existence check; the store is unchanged in both cases.
C14_IdChecks ==
    [][\A s \in 1..MaxRequests :
        /\ (req'[s].op \in IdOps /\ req'[s].pc # "done") => WellFormedId(req'[s].id[1])
        /\ (/\ req[s].pc = "done" /\ req'[s] = IdleReq
            /\ reply'.op \in IdOps /\ ~WellFormedId(reply'.id[1]))
              => /\ reply'.status = 400 /\ ~reply'.wrote
                 /\ UNCHANGED <<logs, tags, logTags>>
        /\ (/\ req[s].op \in IdOps \ {"listTagLogs"} /\ req[s].pc = "selectExisting"
            /\ req'[s] # req[s]
            /\ req[s].id[1] \notin
                  (IF req[s].op = "deleteTag" THEN TagIdsOf(tags) ELSE LogIdsOf(logs)))
              => /\ reply'.op = req[s].op /\ reply'.status = 404 /\ ~reply'.wrote
                 /\ UNCHANGED <<logs, tags, logTags>>
      ]_vars

\* delete-tag was answered 404 for a well-formed ID while a log, a tag and an
\* association are stored.
C14_Witness ==
    /\ reply.op = "deleteTag" /\ reply.status = 404
    /\ WellFormedId(reply.id[1])
    /\ logs # {} /\ tags # {} /\ logTags # EmptyBag

-----------------------------------------------------------------------------
(* Time. An instant is a count of milliseconds since 2024-01-01T00:00:00Z. *)
(* A year of real milliseconds exceeds the model checker's integers, so    *)
(* the clock is coarse: an hour has SecondsPerHour seconds of MsPerSecond  *)
(* milliseconds. Days keep 24 hours and the calendar is the Gregorian one. *)
(* The Worker's own time zone is UTC, so the local fields of a Date that   *)
(* date-fns reads and writes (parseISO, format, addDays) are UTC fields.   *)

MsPerSecond == 2
SecondsPerHour == 2

TicksPerHour == SecondsPerHour * MsPerSecond
TicksPerDay == 24 * TicksPerHour

\* The years the calendar of the model covers.
Years == 2024..2026

IsLeapYear(y) == (y % 4 = 0 /\ y % 100 # 0) \/ y % 400 = 0

DaysInYear(y) == IF IsLeapYear(y) THEN 366 ELSE 365

DaysInMonth(y, m) ==
    CASE m \in {4, 6, 9, 11} -> 30
      [] m = 2 -> IF IsLeapYear(y) THEN 29 ELSE 28
      [] OTHER -> 31

RECURSIVE DaysBeforeYear(_)
DaysBeforeYear(y) == IF y <= 2024 THEN 0 ELSE DaysBeforeYear(y - 1) + DaysInYear(y - 1)

RECURSIVE DaysBeforeMonth(_, _)
DaysBeforeMonth(y, m) ==
    IF m <= 1 THEN 0 ELSE DaysBeforeMonth(y, m - 1) + DaysInMonth(y, m - 1)

\* The number of the day y-m-d, counted from 2024-01-01.
DayNumber(y, m, d) == DaysBeforeYear(y) + DaysBeforeMonth(y, m) + d - 1

\* The calendar date of every day of Years, by day number.
CivilDates ==
    [n \in 0..(DaysBeforeYear(2027) - 1) |->
        Only({[year |-> y, month |-> m, day |-> n - DayNumber(y, m, 1) + 1] :
                 y \in {yy \in Years : DayNumber(yy, 1, 1) <= n /\ n < DayNumber(yy + 1, 1, 1)},
                 m \in {mm \in 1..12 :
                           \E yy \in Years :
                               DayNumber(yy, mm, 1) <= n /\ n < DayNumber(yy, mm + 1, 1)}})]

\* The calendar date of day n.
CivilOf(n) == CivilDates[n]

\* 0 is Monday, 6 is Sunday; 2024-01-01 was a Monday.
Weekday(n) == n % 7

\* An Invalid Date, whose getTime() is NaN.
InvalidDate == None

\* A number written with at least n digits.
Pad(n, k) == IF Len(NatText(k)) >= n THEN NatText(k) ELSE Rep("0", n - Len(NatText(k))) \o NatText(k)

\* format(date, "yyyy-MM-dd") of a valid Date
FormatDate(t) ==
    LET c == CivilOf(t \div TicksPerDay)
    IN  Pad(4, c.year) \o <<"-">> \o Pad(2, c.month) \o <<"-">> \o Pad(2, c.day)

\* format(date, "yyyy-MM") of a valid Date
FormatMonth(t) == SubSeq(FormatDate(t), 1, 7)

\* /^\d{4}-(?:0[1-9]|1[0-2])$/
monthRegex(s) ==
    /\ Len(s) = 7
    /\ IsDigits(SubSeq(s, 1, 4))
    /\ s[5] = "-"
    /\ \/ s[6] = "0" /\ s[7] \in Range(Digits) \ {"0"}
       \/ s[6] = "1" /\ s[7] \in {"0", "1", "2"}

\* /^\d{4}-(?:0[1-9]|1[0-2])-(?:0[1-9]|[12]\d|3[01])$/
dateRegex(s) ==
    /\ Len(s) = 10
    /\ monthRegex(SubSeq(s, 1, 7))
    /\ s[8] = "-"
    /\ \/ s[9] = "0" /\ s[10] \in Range(Digits) \ {"0"}
       \/ s[9] \in {"1", "2"} /\ s[10] \in Range(Digits)
       \/ s[9] = "3" /\ s[10] \in {"0", "1"}

\* parseISO of a text that dateRegex accepts: local midnight of the day, or an
\* Invalid Date when the month has no such day.
parseISO(s) ==
    LET y == DigitsValue(SubSeq(s, 1, 4))
        m == DigitsValue(SubSeq(s, 6, 7))
        d == DigitsValue(SubSeq(s, 9, 10))
    IN  IF y \in Years /\ d <= DaysInMonth(y, m)
        THEN Some(DayNumber(y, m, d) * TicksPerDay)
        ELSE InvalidDate

\* addDays(date, amount): the same local time of day, amount days later.
addDays(t, amount) == t + amount * TicksPerDay

\* subDays(date, amount)
subDays(t, amount) == addDays(t, 0 - amount)

\* addMonths(date, 1) of the first day of a month
addMonths(t) ==
    LET c == CivilOf(t \div TicksPerDay)
    IN  t + DaysInMonth(c.year, c.month) * TicksPerDay

\* The time zones of the model: no offset, a fixed offset, daylight saving
\* time that begins and ends at 02:00 local time, and daylight saving time
\* that begins at local midnight. Offsets are hours east of UTC; the hours are
\* the UTC hours of the second Sunday of March and of the first Sunday of
\* November at which the offset changes.
Zones ==
    [name : {"UTC"}, std : {0}, dst : {0}, startHour : {0}, endHour : {0}]
    \cup [name : {"Asia/Tokyo"}, std : {9}, dst : {9}, startHour : {0}, endHour : {0}]
    \cup [name : {"America/New_York"}, std : {-5}, dst : {-4}, startHour : {7}, endHour : {6}]
    \cup [name : {"America/Havana"}, std : {-5}, dst : {-4}, startHour : {5}, endHour : {5}]

ZoneNames == {z.name : z \in Zones}
ZoneOf(tz) == CHOOSE z \in Zones : z.name = tz

\* isValidTimezoneIANAString(tz)
IsValidTimezone(tz) == tz \in ZoneNames

\* The day of the k-th Sunday of month m of year y.
NthSunday(y, m, k) ==
    LET first == CHOOSE d \in 1..7 : Weekday(DayNumber(y, m, d)) = 6
    IN  DayNumber(y, m, first + 7 * (k - 1))

\* The days on which daylight saving time begins and ends, by year.
DstDays == [y \in Years |-> [start |-> NthSunday(y, 3, 2), end |-> NthSunday(y, 11, 1)]]

DstStart(z, y) == DstDays[y].start * TicksPerDay + z.startHour * TicksPerHour
DstEnd(z, y) == DstDays[y].end * TicksPerDay + z.endHour * TicksPerHour

\* calcOffset(date, tz): local time minus UTC at the instant t.
calcOffset(t, tz) ==
    Only({IF DstStart(z, y) <= t /\ t < DstEnd(z, y)
          THEN z.dst * TicksPerHour ELSE z.std * TicksPerHour :
             z \in {ZoneOf(tz)}, y \in {CivilOf(t \div TicksPerDay).year}})

\* fixOffset(date, offset, tz): the offset of the local time localTS, found from
\* the offset at the same reading taken as UTC.
fixOffset(localTS, offset, tz) ==
    Only({IF offset = o2 THEN offset
          ELSE Only({IF o2 = o3 THEN o2 ELSE IF o3 > o2 THEN o3 ELSE o2 :
                        o3 \in {calcOffset(localTS - offset - (o2 - offset), tz)}}) :
             o2 \in {calcOffset(localTS - offset, tz)}})

\* The wall-clock times the handlers write into the texts they convert.
Midnight == 0                                 \* T00:00:00
LastSecond == TicksPerDay - MsPerSecond       \* T23:59:59

\* fromZonedTime(`${date}T..`, tz).getTime(): the instant at which the clocks
\* of tz read the wall time on the date; NaN for an unknown zone.
fromZonedTime(date, wall, tz) ==
    Only({IF ~IsValidTimezone(tz) \/ parsed = InvalidDate THEN InvalidDate
          ELSE Only({Some(localTS - fixOffset(localTS, calcOffset(localTS, tz), tz)) :
                        localTS \in {parsed[1] + wall}}) :
             parsed \in {parseISO(date)}})

\* toZonedTime(date, tz): a Date whose local fields read the wall time of tz.
toZonedTime(t, tz) ==
    IF ~IsValidTimezone(tz) THEN InvalidDate ELSE Some(t + calcOffset(t, tz))

\* The range of a day that ends at the next local midnight itself
DayWindowToNextMidnight(date, tz) ==
    Only({IF startUtc = InvalidDate \/ nextStart = InvalidDate
          THEN [ok |-> FALSE, startUtc |-> 0, endUtc |-> 0]
          ELSE [ok |-> TRUE, startUtc |-> startUtc[1], endUtc |-> nextStart[1]] :
             startUtc \in {fromZonedTime(date, Midnight, tz)},
             nextStart \in {fromZonedTime(FormatDate(addDays(parseISO(date)[1], 1)),
                                          Midnight, tz)}})

\* The range of a day: from the local midnight of date to one millisecond before
\* the next local midnight, both in tz.
DayWindow(date, tz) ==
    Only({IF startUtc = InvalidDate \/ nextStart = InvalidDate
          THEN [ok |-> FALSE, startUtc |-> 0, endUtc |-> 0]
          ELSE [ok |-> TRUE, startUtc |-> startUtc[1], endUtc |-> nextStart[1] - 1] :
             startUtc \in {fromZonedTime(date, Midnight, tz)},
             nextStart \in {fromZonedTime(FormatDate(addDays(parseISO(date)[1], 1)),
                                          Midnight, tz)}})

\* The date checks without the check of the parsed date
DateSyntaxInvalid(date) ==
    \/ date = None
    \/ date[1] = <<>>
    \/ ~dateRegex(date[1])

\* !date, !dateRegex.test(date), !isValid(parsedDate) or a date that format
\* does not give back.
DateInvalid(date) ==
    \/ date = None
    \/ date[1] = <<>>
    \/ ~dateRegex(date[1])
    \/ \E parsedDate \in {parseISO(date[1])} :
          \/ parsedDate = InvalidDate
          \/ FormatDate(parsedDate[1]) # date[1]

\* !tz
TzMissing(tz) == tz = None \/ tz[1] = ""

\* GET /api/logs: the listing of a day.
ListDay(date, tz, limit, cursor, lgs, bag) ==
    IF DateInvalid(date) \/ TzMissing(tz) THEN ErrorPage(400)
    ELSE IF DecodeCursor(cursor).kind = "invalid" THEN ErrorPage(400)
    ELSE Only({IF ~w.ok THEN ErrorPage(400)
               ELSE ListLogs(Query("day", w.startUtc, w.endUtc, <<>>, <<>>, limit),
                             cursor, lgs, bag) :
                  w \in {DayWindow(date[1], tz[1])}})

-----------------------------------------------------------------------------
(* GET /api/stats: the counts of today, of this week and of a month.        *)

\* The week that starts on Sunday
startOfWeekSunday(t) ==
    (t \div TicksPerDay - ((Weekday(t \div TicksPerDay) + 1) % 7)) * TicksPerDay

\* startOfWeek(date, { weekStartsOn: 1 }): local midnight of the Monday on or
\* before the date.
startOfWeek(t) ==
    (t \div TicksPerDay - Weekday(t \div TicksPerDay)) * TicksPerDay

\* The four boundaries of the handler; a conversion that throws or gives NaN
\* makes the handler answer 400.
StatsBoundaries(now, tz) ==
    Only({
      IF zoned = InvalidDate THEN [ok |-> FALSE]
      ELSE Only({
        Only({
          Only({
            Only({
              Only({IF InvalidDate \in {todayStart, tomorrowStart, weekStart, nextWeekStart}
                    THEN [ok |-> FALSE]
                    ELSE [ok |-> TRUE, todayStr |-> todayStr,
                          todayStart |-> todayStart[1], tomorrowStart |-> tomorrowStart[1],
                          weekStart |-> weekStart[1], nextWeekStart |-> nextWeekStart[1]] :
                       todayStart \in {fromZonedTime(todayStr, Midnight, tz)},
                       tomorrowStart \in {fromZonedTime(FormatDate(addDays(today, 1)),
                                                        Midnight, tz)},
                       weekStart \in {fromZonedTime(mondayStr, Midnight, tz)},
                       nextWeekStart \in {fromZonedTime(FormatDate(addDays(monday, 7)),
                                                        Midnight, tz)}}) :
                 monday \in {parseISO(mondayStr)[1]}}) :
               mondayStr \in {FormatDate(startOfWeek(today))}}) :
             today \in {parseISO(todayStr)[1]}}) :
           todayStr \in {FormatDate(zoned[1])}}) :
         zoned \in {toZonedTime(now, tz)}})

\* select count() from logs where timestamp >= from and timestamp < to
CountRows(lgs, from, to) ==
    Cardinality({l \in lgs : from <= l.timestamp /\ l.timestamp < to})

\* The date texts of a set in the order of localeCompare.
RECURSIVE SortDates(_)
SortDates(dates) ==
    IF dates = {} THEN <<>>
    ELSE LET first == CHOOSE a \in dates : \A b \in dates \ {a} : TextLt(a, b)
         IN  <<first>> \o SortDates(dates \ {first})

\* The month of every row, whatever its date
monthRowsUnbounded(lgs, from, to) == lgs

\* select timestamp from logs where timestamp >= monthStartUtc and
\* timestamp < nextMonthStartUtc
monthRows(lgs, from, to) == {l \in lgs : from <= l.timestamp /\ l.timestamp < to}

\* getMonthCounts(db, tz, month): the days of the month that have rows, each
\* with the number of its rows, or the error thrown.
\* The rows of a month with the date of each in tz, counted by date and
\* sorted by date.
countByDate(dated) ==
    Only({[i \in DOMAIN dates |->
              [date |-> dates[i],
               count |-> Cardinality({r \in dated : r.dateStr = dates[i]})]] :
             dates \in {SortDates({r.dateStr : r \in dated})}})

getMonthCounts(tz, month, lgs) ==
    IF ~monthRegex(month) THEN [ok |-> FALSE]
    ELSE Only({
           IF monthStartDate = InvalidDate THEN [ok |-> FALSE]
           ELSE IF FormatMonth(monthStartDate[1]) # month THEN [ok |-> FALSE]
           ELSE Only({
                  IF monthStartUtc = InvalidDate \/ nextMonthStartUtc = InvalidDate
                  THEN [ok |-> FALSE]
                  ELSE [ok |-> TRUE,
                        days |-> countByDate(
                            {[row |-> l,
                              dateStr |-> FormatDate(toZonedTime(l.timestamp, tz)[1])] :
                                 l \in monthRows(lgs, monthStartUtc[1],
                                                 nextMonthStartUtc[1])})] :
                     monthStartUtc \in
                         {fromZonedTime(FormatDate(monthStartDate[1]), Midnight, tz)},
                     nextMonthStartUtc \in
                         {fromZonedTime(FormatDate(addMonths(monthStartDate[1])),
                                        Midnight, tz)}}) :
              monthStartDate \in {parseISO(month \o <<"-", "0", "1">>)}})

\* The answer of GET /api/stats at the instant now: a status and, when it is 200,
\* todayCount, weekCount and the monthDays field if the answer has one.
Stats(tz, month, now, lgs) ==
    IF TzMissing(tz) THEN [status |-> 400]
    ELSE Only({
           IF ~b.ok \/ ~monthDays.ok THEN [status |-> 400]
           ELSE [status |-> 200,
                 todayCount |-> CountRows(lgs, b.todayStart, b.tomorrowStart),
                 weekCount |-> CountRows(lgs, b.weekStart, b.nextWeekStart),
                 monthDays |-> IF monthDays.wanted THEN Some(monthDays.days) ELSE None] :
              b \in {StatsBoundaries(now, tz[1])},
              monthDays \in {IF month # None /\ month[1] # <<>>
                             THEN [wanted |-> TRUE] @@ getMonthCounts(tz[1], month[1], lgs)
                             ELSE [wanted |-> FALSE, ok |-> TRUE]}})

\* getLogs(date, {limit, cursor}) called again with each nextCursor: the items
\* of all the pages of a day.
RECURSIVE ListAllPages(_, _, _, _, _, _)
ListAllPages(date, tz, limit, cursor, lgs, bag) ==
    Only({IF page.status # 200 \/ page.nextCursor = None THEN page.items
          ELSE page.items \o ListAllPages(date, tz, limit, page.nextCursor, lgs, bag) :
             page \in {ListDay(date, tz, limit, cursor, lgs, bag)}})

\* The instant of an hour of a day, and the millisecond before it.
At(y, m, d, h) == DayNumber(y, m, d) * TicksPerDay + h * TicksPerHour
Before(t) == t - 1

\* The date text of a day.
DateText(y, m, d) == FormatDate(At(y, m, d, 0))

\* Entries around the local midnights of 2025-03-09 and 2025-03-10 in New
\* York and Havana and in the middle of the day; stats and listings asked in
\* the evening of 2025-03-08 and on 2025-03-09 there, in every zone and in an
\* unknown one.
StatsProfile ==
    [slots |-> {1},
     logIds |-> {IdText(LogIdChars[1]), IdText(LogIdChars[2])},
     createBodies |->
        {LogBody(Some("thought"), Some(<<"a">>), Some(t), None) :
            t \in {Before(At(2025, 3, 9, 4)), At(2025, 3, 9, 4),
                   Before(At(2025, 3, 9, 5)), At(2025, 3, 9, 5),
                   At(2025, 3, 9, 12),
                   Before(At(2025, 3, 10, 4)), At(2025, 3, 10, 4)}},
     clock |-> {At(2025, 3, 1, 0)},
     nows |-> {At(2025, 3, 9, 4) + 1, At(2025, 3, 9, 5), At(2025, 3, 9, 23)},
     tzs |-> {None, Some(""), Some("Invalid/Timezone")} \cup {Some(z) : z \in ZoneNames},
     months |-> {None},
     limits |-> {Some(<<"1">>)},
     anyId |-> FALSE]

\* Entries around the ends of February and of March in New York and Havana
\* and two on a day of March; stats asked with and without a month.
MonthProfile ==
    [slots |-> {1},
     logIds |-> {IdText(LogIdChars[1]), IdText(LogIdChars[2])},
     createBodies |->
        {LogBody(Some("thought"), Some(<<"a">>), Some(t), None) :
            t \in {Before(At(2025, 3, 1, 5)), At(2025, 3, 1, 5),
                   At(2025, 3, 9, 12), At(2025, 3, 9, 13),
                   Before(At(2025, 4, 1, 4)), At(2025, 4, 1, 4)}},
     clock |-> {At(2025, 3, 1, 0)},
     nows |-> {At(2025, 3, 9, 12)},
     tzs |-> {Some("Invalid/Timezone"), Some("UTC"), Some("America/New_York"),
              Some("America/Havana")},
     months |-> {None, Some(<<>>), Some(SubSeq(DateText(2025, 3, 1), 1, 7)),
                 Some(SubSeq(DateText(2025, 2, 1), 1, 7)),
                 Some(<<"2", "0", "2", "5", "-", "1", "3">>)},
     limits |-> {Some(<<"1">>)},
     anyId |-> FALSE]

\* new Date() of a request that reads the clock after the stored rows were written.
StatsNow(P) == {t \in P.nows : \A l \in logs : t >= l.updatedAt}

\* A client asks for the stats and lists the day that is today in its zone, in
\* pages, with no write in between; it is the last step of a run.
ProbeStats(P) ==
    /\ probe = None
    /\ \E tz \in P.tzs, month \in P.months, now \in StatsNow(P), limit \in P.limits :
        \E today \in {IF tz = None \/ ~IsValidTimezone(tz[1]) THEN None
                       ELSE Some(FormatDate(toZonedTime(now, tz[1])[1]))} :
            probe' = Some([tz |-> tz, month |-> month, now |-> now,
                           stats |-> Stats(tz, month, now, logs),
                           today |-> today,
                           listed |-> ListAllPages(today, tz, limit, None, logs, logTags)])
    /\ reply' = NoReply
    /\ UNCHANGED <<logs, tags, logTags, usedIds, req, run>>

\* The logs are created; then the stats are asked for and the day is listed.
NextStats ==
    \/ /\ probe = None
       /\ \E s \in StatsProfile.slots :
            \/ StartCreateLog(s, StatsProfile)
            \/ CreateLogInsertLog(s)
    \/ ProbeStats(StatsProfile)

SpecStats == Init /\ [][NextStats]_vars

\* The logs are created; then the stats are asked for.
NextMonth ==
    \/ /\ probe = None
       /\ \E s \in MonthProfile.slots :
            \/ StartCreateLog(s, MonthProfile)
            \/ CreateLogInsertLog(s)
    \/ ProbeStats(MonthProfile)

SpecMonth == Init /\ [][NextMonth]_vars

-----------------------------------------------------------------------------
(* GET /api/search: entries whose content holds q, in a time window.        *)

SearchLimit == 50

Lower == <<"a", "b", "c", "d", "e", "f", "g", "h", "i", "j", "k", "l", "m",
           "n", "o", "p", "q", "r", "s", "t", "u", "v", "w", "x", "y", "z">>

\* LIKE compares the letters A-Z and a-z without regard to case.
Fold(c) == IF \E i \in DOMAIN Upper : Upper[i] = c
           THEN Lower[CHOOSE i \in DOMAIN Upper : Upper[i] = c] ELSE c

\* str.replace(/\\/g, "\\\\").replace(/%/g, "\\%").replace(/_/g, "\\_")
RECURSIVE escapeLike(_)
escapeLike(str) ==
    IF str = <<>> THEN <<>>
    ELSE IF Head(str) \in {"\\", "%", "_"} THEN <<"\\", Head(str)>> \o escapeLike(Tail(str))
    ELSE <<Head(str)>> \o escapeLike(Tail(str))

\* text LIKE pattern ESCAPE '\': % stands for any characters, _ for one, and the
\* character after the escape character for itself.
RECURSIVE Like(_, _)
Like(text, pattern) ==
    IF pattern = <<>> THEN text = <<>>
    ELSE IF Head(pattern) = "%"
         THEN \E k \in 0..Len(text) : Like(SubSeq(text, k + 1, Len(text)), Tail(pattern))
    ELSE IF Head(pattern) = "_"
         THEN text # <<>> /\ Like(Tail(text), Tail(pattern))
    ELSE IF Head(pattern) = "\\"
         THEN /\ Len(pattern) >= 2 /\ text # <<>>
              /\ Fold(Head(text)) = Fold(pattern[2])
              /\ Like(Tail(text), SubSeq(pattern, 3, Len(pattern)))
    ELSE /\ text # <<>>
         /\ Fold(Head(text)) = Fold(Head(pattern))
         /\ Like(Tail(text), Tail(pattern))

\* `%${escapedQuery}%`
likePattern(q) == <<"%">> \o escapeLike(q) \o <<"%">>

\* The last 90 days: from the midnight of 90 days before the date that format
\* gives for now to 23:59:59 of the date that format gives for now, both
\* dates read in tz.
DefaultWindow(now, tz) ==
    Only({IF startUtc = InvalidDate \/ endUtc = InvalidDate
          THEN [ok |-> FALSE, startUtc |-> 0, endUtc |-> 0]
          ELSE [ok |-> TRUE, startUtc |-> startUtc[1], endUtc |-> endUtc[1]] :
             endUtc \in {fromZonedTime(FormatDate(now), LastSecond, tz)},
             startUtc \in {fromZonedTime(FormatDate(subDays(now, 90)), Midnight, tz)}})

\* A result without a limit
Unlimited(rows, n) == rows

\* .limit(n)
Limit(rows, n) == Take(rows, n)

\* GET /api/search at the instant now: a status and the items.
Search(q, type, date, tz, now, lgs) ==
    LET rejected == [status |-> 400, items |-> <<>>]
        typed == type # None /\ type[1] # ""
        dated == date # None /\ date[1] # <<>>
    IN  IF q = None \/ Len(q[1]) < 2 THEN rejected
        ELSE IF TzMissing(tz) THEN rejected
        ELSE IF typed /\ ~isValidLogType(type[1]) THEN rejected
        ELSE IF dated /\ DateInvalid(date) THEN rejected
        ELSE Only({
               IF ~w.ok THEN rejected
               ELSE [status |-> 200,
                     items |-> Limit(SortDesc({l \in lgs :
                                        /\ Like(l.content, pattern)
                                        /\ w.startUtc <= l.timestamp
                                        /\ l.timestamp <= w.endUtc
                                        /\ typed => l.type = type[1]}), SearchLimit)] :
                  w \in {IF dated THEN DayWindow(date[1], tz[1])
                         ELSE DefaultWindow(now, tz[1])},
                  pattern \in {likePattern(q[1])}})

\* A client searches; the rows it read are kept with the answer. It is the
\* last step of a run.
ProbeSearch(P) ==
    /\ probe = None
    /\ \E q \in P.qs, type \in P.types, date \in P.dates, tz \in P.tzs, now \in StatsNow(P) :
        probe' = Some([q |-> q, type |-> type, date |-> date, tz |-> tz, now |-> now,
                       seen |-> logs,
                       answer |-> Search(q, type, date, tz, now, logs)])
    /\ reply' = NoReply
    /\ UNCHANGED <<logs, tags, logTags, usedIds, req, run>>

\* Searches without a date in the evening of 2025-03-08 in New York and in the
\* morning of 2025-03-10 in Tokyo; entries at those instants, at the midnights
\* of New York 90 days before and in between.
WindowProfile ==
    [slots |-> {1},
     logIds |-> {IdText(LogIdChars[1]), IdText(LogIdChars[2])},
     createBodies |->
        {LogBody(Some("thought"), Some(<<"a", "b">>), Some(t), None) :
            t \in {At(2025, 3, 9, 3), At(2025, 3, 9, 20), At(2025, 1, 15, 0),
                   Before(At(2024, 12, 8, 5)), At(2024, 12, 8, 5),
                   Before(At(2024, 12, 9, 5)), At(2024, 12, 9, 5)}},
     clock |-> {At(2024, 12, 1, 0)},
     nows |-> {At(2025, 3, 9, 3), At(2025, 3, 9, 20)},
     qs |-> {Some(<<"a", "b">>)},
     types |-> {None, Some("thought")},
     dates |-> {None},
     tzs |-> {Some("Invalid/Timezone")} \cup {Some(z) : z \in ZoneNames},
     anyId |-> FALSE]

NextSearchWindow ==
    \/ /\ probe = None
       /\ \E s \in WindowProfile.slots :
            \/ StartCreateLog(s, WindowProfile)
            \/ CreateLogInsertLog(s)
    \/ ProbeSearch(WindowProfile)

SpecSearchWindow == Init /\ [][NextSearchWindow]_vars

\* Searches of one day in UTC for texts with and without the characters that
\* LIKE gives a meaning; entries of that day and one of the day after.
TextProfile ==
    [slots |-> {1},
     logIds |-> {IdText(LogIdChars[1]), IdText(LogIdChars[2])},
     createBodies |->
        {LogBody(Some("thought"), Some(<<"1", "0", "0", "%">>), Some(At(2025, 3, 9, 12)), None),
         LogBody(Some("thought"), Some(<<"1", "0", "0", "0">>), Some(At(2025, 3, 9, 12)), None),
         LogBody(Some("thought"), Some(<<"a", "_", "b">>), Some(At(2025, 3, 9, 12)), None),
         LogBody(Some("meal"), Some(<<"a", "x", "b">>), Some(At(2025, 3, 9, 12)), None),
         LogBody(Some("thought"), Some(<<"a", "\\", "b">>), Some(At(2025, 3, 9, 13)), None),
         LogBody(Some("thought"), Some(<<"A", "B">>), Some(At(2025, 3, 9, 13)), None),
         LogBody(Some("thought"), Some(<<"a", "b">>), Some(At(2025, 3, 10, 12)), None)},
     clock |-> {At(2025, 3, 1, 0)},
     nows |-> {At(2025, 3, 11, 0)},
     qs |-> {None, Some(<<"a">>), Some(<<"0", "%">>), Some(<<"a", "_">>),
             Some(<<"\\", "b">>), Some(<<"a", "b">>)},
     types |-> {None, Some("thought"), Some("memo")},
     dates |-> {Some(DateText(2025, 3, 9))},
     tzs |-> {Some("UTC")},
     anyId |-> FALSE]

NextSearchText ==
    \/ /\ probe = None
       /\ \E s \in TextProfile.slots :
            \/ StartCreateLog(s, TextProfile)
            \/ CreateLogInsertLog(s)
    \/ ProbeSearch(TextProfile)

SpecSearchText == Init /\ [][NextSearchText]_vars

\* The number of logs created before a search that tests the limit.
MaxBulk == 52

\* The i-th ID of a long run of creations.
BulkId(i) ==
    <<Digits[1 + (i \div 10)], Digits[1 + (i % 10)]>> \o Rep("0", UlidLen - 2)

\* Many logs of one day with the same content, the first two with an earlier
\* or a later timestamp than the rest or with another content; then searches of
\* that day, well-formed and not.
CapProfile ==
    [slots |-> {1},
     logIds |-> {BulkId(i) : i \in 1..MaxBulk},
     createBodies |->
        IF Cardinality(logs) < 2
        THEN {LogBody(Some("thought"), Some(<<"a", "b">>), Some(At(2025, 3, 9, 1)), None),
              LogBody(Some("thought"), Some(<<"a", "b">>), Some(At(2025, 3, 9, 3)), None),
              LogBody(Some("thought"), Some(<<"x", "y">>), Some(At(2025, 3, 9, 3)), None)}
        ELSE {LogBody(Some("thought"), Some(<<"a", "b">>), Some(At(2025, 3, 9, 2)), None)},
     clock |-> {At(2025, 3, 1, 0)},
     nows |-> {At(2025, 3, 11, 0)},
     qs |-> {None, Some(<<"a">>), Some(<<"a", "b">>)},
     types |-> {None, Some("memo")},
     dates |-> {Some(DateText(2025, 3, 9)),
                Some(<<"2", "0", "2", "5", "-", "0", "2", "-", "3", "1">>),
                Some(<<"2", "0", "2", "5", "-", "3", "-", "9">>)},
     tzs |-> {None, Some("UTC")},
     anyId |-> FALSE]

\* The logs are created one after the other; then one search is made.
NextSearchCap ==
    \/ /\ probe = None
       /\ \E s \in CapProfile.slots :
            \/ StartCreateLog(s, CapProfile)
            \/ CreateLogInsertLog(s)
    \/ ProbeSearch(CapProfile)

SpecSearchCap == Init /\ [][NextSearchCap]_vars

\* The days of March and of November 2025, the months in which the offsets of
\* New York and Havana change, in every zone.
WindowDates == {DateText(2025, mo, d) : mo \in {3, 11}, d \in 1..30}

\* The range calculation of the day listing for one date and zone.
ProbeWindow ==
    /\ probe = None
    /\ \E date \in WindowDates, tz \in ZoneNames \cup {"Invalid/Timezone"} :
        probe' = Some([date |-> date, tz |-> tz, window |-> DayWindow(date, tz)])
    /\ reply' = NoReply
    /\ UNCHANGED <<logs, tags, logTags, usedIds, req, run>>

NextWindow == ProbeWindow

SpecWindow == Init /\ [][NextWindow]_vars

-----------------------------------------------------------------------------
(* C15. In every store state, for every time zone and instant: the          *)
(* todayCount of stats equals the number of items the day listing returns   *)
(* over all its pages for the date of that instant in the zone.             *)
C15_TodayCountIsDayListing ==
    (probe # None /\ probe[1].stats.status = 200)
        => probe[1].stats.todayCount = Len(probe[1].listed)

\* Stats in New York on 2025-03-09, the 23-hour day, with an entry in the first
\* and one in the last millisecond of the day, listed in two pages.
C15_Witness ==
    /\ probe # None
    /\ probe[1].tz = Some("America/New_York")
    /\ probe[1].today = Some(DateText(2025, 3, 9))
    /\ probe[1].stats.status = 200
    /\ probe[1].stats.todayCount = 2
    /\ {l.timestamp : l \in logs} = {At(2025, 3, 9, 5), Before(At(2025, 3, 10, 4))}

-----------------------------------------------------------------------------
(* Local dates, read off the clocks of a zone.                              *)

\* The number of the day that the clocks of tz show at the instant t.
LocalDay(t, tz) == (t + calcOffset(t, tz)) \div TicksPerDay

\* The first instant at which the clocks of tz show day d: its local midnight.
StartOfLocalDay(d, tz) ==
    CHOOSE t \in {d * TicksPerDay + h * TicksPerHour : h \in -14..14} :
        LocalDay(t, tz) >= d /\ LocalDay(t - 1, tz) < d

\* q occurs in text, character for character.
Contains(text, q) ==
    \E k \in 1..(Len(text) - Len(q) + 1) : SubSeq(text, k, k + Len(q) - 1) = q

\* The entries of the probed store that a search for q and type is about.
Candidates(pr) ==
    {l \in pr.seen : /\ Contains(l.content, pr.q[1])
                     /\ (pr.type # None => l.type = pr.type[1])}

(* C16. A search without a date looks at the 90 days that end now in tz: a  *)
(* matching entry whose timestamp is now is returned, and so is every       *)
(* matching entry from the tz-local midnight 90 days before the tz-local    *)
(* date of now on, and none before that midnight.                           *)
C16_DefaultWindowEndsNow ==
    (probe # None /\ probe[1].date = None /\ probe[1].answer.status = 200)
        => LET pr == probe[1]
               start == StartOfLocalDay(LocalDay(pr.now, pr.tz[1]) - 90, pr.tz[1])
           IN  \A l \in Candidates(pr) :
                   /\ (start <= l.timestamp /\ l.timestamp <= pr.now)
                          => l \in Range(pr.answer.items)
                   /\ l.timestamp < start => l \notin Range(pr.answer.items)

(* C17. A search of a day returns exactly the entries of that day (and of  *)
(* the type asked for) whose content holds q character for character: %, _ *)
(* and \ in q stand for themselves only.                                    *)
C17_LiteralSubstring ==
    (probe # None /\ probe[1].date # None /\ probe[1].answer.status = 200)
        => LET pr == probe[1]
               day == parseISO(pr.date[1])[1] \div TicksPerDay
           IN  Range(pr.answer.items) =
                   {l \in Candidates(pr) : LocalDay(l.timestamp, pr.tz[1]) = day}

\* a comes before b in the order (timestamp DESC, id DESC).
Earlier(a, b) ==
    a.timestamp > b.timestamp \/ (a.timestamp = b.timestamp /\ TextLt(b.id, a.id))

\* The text has the shape YYYY-MM-DD with a month 01..12 and a day 01..31.
HasDateShape(text) ==
    /\ Len(text) = 10
    /\ \A i \in {1, 2, 3, 4, 6, 7, 9, 10} : text[i] \in Range(Digits)
    /\ text[5] = "-" /\ text[8] = "-"
    /\ DigitsValue(SubSeq(text, 6, 7)) \in 1..12
    /\ DigitsValue(SubSeq(text, 9, 10)) \in 1..31

\* The text names a day of the calendar as YYYY-MM-DD.
RealDate(text) ==
    /\ HasDateShape(text)
    /\ DigitsValue(SubSeq(text, 1, 4)) \in Years
    /\ DigitsValue(SubSeq(text, 9, 10))
          <= DaysInMonth(DigitsValue(SubSeq(text, 1, 4)), DigitsValue(SubSeq(text, 6, 7)))

(* C18. A search returns at most 50 items; they are the first 50 of the     *)
(* matching entries in the order (timestamp DESC, id DESC), all of them if  *)
(* fewer match; a q shorter than 2 characters, a missing tz, an invalid     *)
(* type or an invalid date is answered with 400 and no items.               *)
C18_CapOrderAndRejections ==
    probe # None
        => LET pr == probe[1]
               items == pr.answer.items
               invalid == \/ pr.q = None \/ Len(pr.q[1]) < 2
                          \/ pr.tz = None \/ pr.tz[1] = ""
                          \/ (pr.type # None /\ pr.type[1] \notin Range(logTypes))
                          \/ (pr.date # None /\ ~RealDate(pr.date[1]))
               matching ==
                   {l \in Candidates(pr) :
                       LocalDay(l.timestamp, pr.tz[1]) = parseISO(pr.date[1])[1] \div TicksPerDay}
           IN  /\ invalid => (pr.answer.status = 400 /\ items = <<>>)
               /\ pr.answer.status = 200 =>
                     /\ Len(items) <= 50
                     /\ Len(items) = (IF Cardinality(matching) < 50
                                      THEN Cardinality(matching) ELSE 50)
                     /\ Range(items) \subseteq matching
                     /\ \A i, j \in DOMAIN items : i < j => Earlier(items[i], items[j])
                     /\ \A l \in matching \ Range(items) :
                           \A i \in DOMAIN items : Earlier(items[i], l)

\* More than 50 entries match; the first item is the entry with the later
\* timestamp and the least ID, and the entry with the earlier timestamp is left out.
C18_Witness ==
    /\ probe # None
    /\ probe[1].answer.status = 200
    /\ Len(probe[1].answer.items) = 50
    /\ Cardinality(Candidates(probe[1])) > 50
    /\ probe[1].answer.items[1].id = BulkId(1)
    /\ \E l \in probe[1].seen : l.id = BulkId(2) /\ l \notin Range(probe[1].answer.items)

(* C19. For every valid date and zone the day window has start <= end, the *)
(* start is the instant of the zone's local midnight of the date and the    *)
(* end is one millisecond before the local midnight of the next date, so    *)
(* the window is 24 hours long less the change of the zone's offset on that *)
(* date: 23 hours on 2025-03-09 and 25 hours on 2025-11-02 in New York.     *)
C19_DayWindowIsLocalDay ==
    (probe # None /\ IsValidTimezone(probe[1].tz))
        => LET pr == probe[1]
               w == pr.window
               day == parseISO(pr.date)[1] \div TicksPerDay
               length == w.endUtc + 1 - w.startUtc
               change == calcOffset(StartOfLocalDay(day + 1, pr.tz), pr.tz)
                            - calcOffset(StartOfLocalDay(day, pr.tz), pr.tz)
           IN  /\ w.ok
               /\ w.startUtc <= w.endUtc
               /\ w.startUtc = StartOfLocalDay(day, pr.tz)
               /\ w.endUtc = StartOfLocalDay(day + 1, pr.tz) - 1
               /\ length = TicksPerDay - change
               /\ (pr.tz = "America/New_York" /\ pr.date = DateText(2025, 3, 9))
                      => length = 23 * TicksPerHour
               /\ (pr.tz = "America/New_York" /\ pr.date = DateText(2025, 11, 2))
                      => length = 25 * TicksPerHour

\* The date that the clocks of tz show at the instant t, as a text.
LocalDateText(t, tz) ==
    LET c == CivilOf(LocalDay(t, tz))
    IN  DateText(c.year, c.month, c.day)

RECURSIVE SumCounts(_)
SumCounts(days) == IF days = <<>> THEN 0 ELSE Head(days).count + SumCounts(Tail(days))

(* C20. Stats with a valid month: monthDays has one element for each local  *)
(* date of the month on which an entry falls, with the number of entries of *)
(* that date; entries before the month or from the local start of the next  *)
(* month on are not counted, and the counts add up to the number of entries *)
(* in [monthStartUtc, nextMonthStartUtc). Without a month there is no       *)
(* monthDays field.                                                         *)
C20_MonthDays ==
    (probe # None /\ probe[1].stats.status = 200)
        => LET pr == probe[1]
               tz == pr.tz[1]
               supplied == pr.month # None /\ pr.month[1] # <<>>
               days == pr.stats.monthDays[1]
               inMonth(date) == SubSeq(date, 1, 7) = pr.month[1]
               onDate(date) == {l \in logs : LocalDateText(l.timestamp, tz) = date}
               year == DigitsValue(SubSeq(pr.month[1], 1, 4))
               mon == DigitsValue(SubSeq(pr.month[1], 6, 7))
               monthStartUtc == StartOfLocalDay(DayNumber(year, mon, 1), tz)
               nextMonthStartUtc ==
                   StartOfLocalDay(DayNumber(year, mon, 1) + DaysInMonth(year, mon), tz)
           IN  IF ~supplied THEN pr.stats.monthDays = None
               ELSE /\ pr.stats.monthDays # None
                    /\ \A i, j \in DOMAIN days : days[i].date = days[j].date => i = j
                    /\ \A i \in DOMAIN days :
                          /\ inMonth(days[i].date)
                          /\ days[i].count >= 1
                          /\ days[i].count = Cardinality(onDate(days[i].date))
                    /\ \A l \in logs :
                          inMonth(LocalDateText(l.timestamp, tz))
                             => \E i \in DOMAIN days :
                                    days[i].date = LocalDateText(l.timestamp, tz)
                    /\ SumCounts(days) =
                          Cardinality({l \in logs : /\ monthStartUtc <= l.timestamp
                                                    /\ l.timestamp < nextMonthStartUtc})

\* Stats of March 2025 in New York with an entry in the last millisecond of
\* March there and one in the first of April: one day, 2025-03-31, with one entry.
C20_Witness ==
    /\ probe # None
    /\ probe[1].tz = Some("America/New_York")
    /\ probe[1].month = Some(SubSeq(DateText(2025, 3, 1), 1, 7))
    /\ probe[1].stats.status = 200
    /\ {l.timestamp : l \in logs} = {Before(At(2025, 4, 1, 4)), At(2025, 4, 1, 4)}
    /\ probe[1].stats.monthDays = Some(<<[date |-> DateText(2025, 3, 31), count |-> 1]>>)

-----------------------------------------------------------------------------
(* C21. For every valid zone and instant the week window of stats is the   *)
(* range from the zone's local midnight of the Monday of the week of today *)
(* up to, and not including, the local midnight of the next Monday; it      *)
(* contains the window of today, weekCount counts the entries in it, and    *)
(* todayCount <= weekCount.                                                 *)
C21_WeekWindow ==
    (probe # None /\ probe[1].stats.status = 200)
        => LET pr == probe[1]
               tz == pr.tz[1]
               b == StatsBoundaries(pr.now, tz)
               today == LocalDay(pr.now, tz)
               monday == today - Weekday(today)
           IN  /\ Weekday(monday) = 0 /\ monday <= today /\ today < monday + 7
               /\ b.weekStart = StartOfLocalDay(monday, tz)
               /\ b.nextWeekStart = StartOfLocalDay(monday + 7, tz)
               /\ b.weekStart <= b.todayStart
               /\ b.todayStart <= b.tomorrowStart
               /\ b.tomorrowStart <= b.nextWeekStart
               /\ pr.stats.weekCount =
                     Cardinality({l \in logs : /\ b.weekStart <= l.timestamp
                                               /\ l.timestamp < b.nextWeekStart})
               /\ pr.stats.todayCount <= pr.stats.weekCount

\* Stats in New York on Sunday 2025-03-09 with an entry of that day and one in
\* the last millisecond of the Saturday before: today has one entry and the
\* week, which began on Monday 2025-03-03, has two.
C21_Witness ==
    /\ probe # None
    /\ probe[1].tz = Some("America/New_York")
    /\ probe[1].now = At(2025, 3, 9, 23)
    /\ probe[1].stats.status = 200
    /\ {l.timestamp : l \in logs} = {Before(At(2025, 3, 9, 5)), At(2025, 3, 9, 12)}
    /\ probe[1].stats.todayCount = 1
    /\ probe[1].stats.weekCount = 2
    /\ StatsBoundaries(probe[1].now, "America/New_York").weekStart = At(2025, 3, 3, 5)

-----------------------------------------------------------------------------
(* The limit parameter of the three listings, written by hand.              *)

\* Texts of at most three characters from digits, a dot, a sign, a blank and a
\* letter, and some longer numbers.
LimitChars == {"0", "1", "5", "9", ".", "-", " ", "a"}

LimitTexts ==
    {<<>>}
    \cup {<<a>> : a \in LimitChars}
    \cup {<<a, b>> : a, b \in LimitChars}
    \cup {<<a, b, c>> : a, b, c \in LimitChars}
    \cup {<<"1", "0", "0", "0">>, <<"9", "9", "9", "9">>, <<"1", "0", ".", "5">>}

\* Three logs of one instant, then listings of that instant's day, of the
\* timeline and of a tag with every limit text and without a limit.
LimitProfile ==
    [slots |-> {1},
     logIds |-> {IdText(LogIdChars[i]) : i \in 1..3},
     createBodies |-> {LogBody(Some("thought"), Some(<<"a">>), Some(1), None)},
     clock |-> {1},
     queries |-> {[listing |-> "day", startUtc |-> 1, endUtc |-> 1],
                  [listing |-> "timeline", startUtc |-> 0, endUtc |-> 0],
                  [listing |-> "tag", startUtc |-> 0, endUtc |-> 0]},
     limits |-> {None} \cup {Some(t) : t \in LimitTexts},
     anyId |-> FALSE]

\* One listing request with a limit parameter; the effective limit of the
\* handler is kept with the page. It is the last step of a run.
ProbeLimit(P) ==
    /\ probe = None
    /\ \E q \in P.queries, limit \in P.limits :
        probe' = Some([listing |-> q.listing, limit |-> limit,
                       limitNum |-> LimitNum(limit),
                       page |-> ListLogs(Query(q.listing, q.startUtc, q.endUtc, <<>>,
                                               PagingTagId, limit),
                                         None, logs, logTags)])
    /\ reply' = NoReply
    /\ UNCHANGED <<logs, tags, logTags, usedIds, req, run>>

NextLimit ==
    \/ /\ probe = None
       /\ \E s \in LimitProfile.slots :
            \/ StartCreateLog(s, LimitProfile)
            \/ CreateLogInsertLog(s)
    \/ ProbeLimit(LimitProfile)

SpecLimit == Init /\ [][NextLimit]_vars

\* The text is a decimal numeral: an optional sign, then digits with at most
\* one dot among them and at least one digit.
IsNumeral(text) ==
    LET body == IF text # <<>> /\ Head(text) \in {"+", "-"} THEN Tail(text) ELSE text
        dots == {i \in DOMAIN body : body[i] = "."}
    IN  /\ \A i \in DOMAIN body : body[i] \in Range(Digits) \cup {"."}
        /\ Cardinality(dots) <= 1
        /\ Cardinality(DOMAIN body \ dots) >= 1

\* The text without the blanks around it.
Unpadded(text) ==
    LET inked == {i \in DOMAIN text : text[i] # " "}
    IN  IF inked = {} THEN <<>>
        ELSE SubSeq(text, CHOOSE i \in inked : \A j \in inked : i <= j,
                          CHOOSE i \in inked : \A j \in inked : j <= i)

(* C22. For every value of the limit parameter the effective page size of  *)
(* a listing is a whole number in 1..100, and a page that is answered has   *)
(* no more items than that: an absent limit or one that is not a number     *)
(* gives 50, and no request fails because of its limit.                     *)
C22_LimitIsWholeNumber ==
    probe # None
        => LET pr == probe[1]
               n == pr.limitNum
           IN  /\ ~n.nan /\ n.den > 0
               /\ n.num % n.den = 0
               /\ 1 <= n.num \div n.den /\ n.num \div n.den <= 100
               /\ (pr.limit = None \/ (Unpadded(pr.limit[1]) # <<>>
                                        /\ ~IsNumeral(Unpadded(pr.limit[1]))))
                      => n.num = 50 * n.den
               /\ pr.page.status = 200
               /\ Len(pr.page.items) <= n.num \div n.den

-----------------------------------------------------------------------------
(* The parameter checks of GET /api/logs and the error each one reports.    *)

\* The error text of the answer of the day listing, "none" when it answers
\* with a page: the checks in the order in which the handler makes them.
ListDayError(date, tz, cursor) ==
    IF date = None \/ date[1] = <<>> THEN "date parameter is required"
    ELSE IF ~dateRegex(date[1]) THEN "Invalid date format"
    ELSE IF DateInvalid(date) THEN "Invalid date"
    ELSE IF TzMissing(tz) THEN "tz parameter is required"
    ELSE IF DecodeCursor(cursor).kind = "invalid" THEN "Invalid cursor"
    ELSE IF ~DayWindow(date[1], tz[1]).ok THEN "Invalid timezone"
    ELSE "none"

\* Date parameters: absent, empty, not of the pattern, of the pattern without
\* being a day of the calendar, and days of the calendar.
ValidationDates ==
    {None, Some(<<>>),
     Some(<<"2", "0", "2", "5", "-", "1", "-", "1">>),
     Some(<<"2", "0", "2", "5", "0", "3", "0", "9">>),
     Some(<<"2", "0", "2", "5", "-", "1", "3", "-", "0", "1">>),
     Some(<<"2", "0", "2", "5", "-", "0", "0", "-", "1", "0">>),
     Some(<<"2", "0", "2", "5", "-", "0", "3", "-", "3", "2">>),
     Some(<<"2", "0", "2", "5", "-", "0", "3", "-", "0", "0">>),
     Some(<<"2", "0", "2", "5", "/", "0", "3", "/", "0", "9">>),
     Some(<<"2", "0", "2", "5", "-", "0", "2", "-", "3", "1">>),
     Some(<<"2", "0", "2", "5", "-", "0", "2", "-", "2", "9">>),
     Some(<<"2", "0", "2", "5", "-", "0", "4", "-", "3", "1">>),
     Some(<<"2", "0", "2", "4", "-", "0", "2", "-", "2", "9">>),
     Some(<<"2", "0", "2", "5", "-", "0", "2", "-", "2", "8">>),
     Some(<<"2", "0", "2", "5", "-", "0", "3", "-", "0", "9">>)}

\* Entries of 2025-03-09 and 2025-02-28, then listings of a day with every
\* date parameter, with zones that exist, one that does not and none, and with
\* no cursor, a well-formed and a malformed one.
ValidationProfile ==
    [slots |-> {1},
     logIds |-> {IdText(LogIdChars[1]), IdText(LogIdChars[2])},
     createBodies |->
        {LogBody(Some("thought"), Some(<<"a">>), Some(t), None) :
            t \in {At(2025, 3, 9, 12), At(2025, 2, 28, 12)}},
     clock |-> {At(2025, 3, 1, 0)},
     dates |-> ValidationDates,
     tzs |-> {None, Some(""), Some("Invalid/Timezone"), Some("UTC"), Some("Asia/Tokyo"),
              Some("America/New_York")},
     cursors |-> {None, Some(<<"a">>),
                  Some(IntText(At(2025, 3, 9, 13)) \o <<"_">> \o IdText(LogIdChars[3]))},
     anyId |-> FALSE]

\* One request to the day listing: its error text and its page. It is the
\* last step of a run.
ProbeValidation(P) ==
    /\ probe = None
    /\ \E date \in P.dates, tz \in P.tzs, cursor \in P.cursors :
        probe' = Some([date |-> date, tz |-> tz, cursor |-> cursor,
                       error |-> ListDayError(date, tz, cursor),
                       page |-> ListDay(date, tz, None, cursor, logs, logTags)])
    /\ reply' = NoReply
    /\ UNCHANGED <<logs, tags, logTags, usedIds, req, run>>

NextValidation ==
    \/ /\ probe = None
       /\ \E s \in ValidationProfile.slots :
            \/ StartCreateLog(s, ValidationProfile)
            \/ CreateLogInsertLog(s)
    \/ ProbeValidation(ValidationProfile)

SpecValidation == Init /\ [][NextValidation]_vars

\* The error texts that name the date, and the one that names the timezone.
DateErrors == {"date parameter is required", "Invalid date format", "Invalid date"}
TimezoneError == "Invalid timezone"

-----------------------------------------------------------------------------
(* GET /api/stats: topTags, the tags with the most associations.            *)

TopTagsLimit == 10

\* The number of rows a table holds under the keys.
RECURSIVE CountRowsOf(_, _)
CountRowsOf(bag, keys) ==
    IF keys = {} THEN 0
    ELSE Only({bag[k] + CountRowsOf(bag, keys \ {k}) : k \in {CHOOSE x \in keys : TRUE}})

\* count(logTags.logId) of the group of a tag in the left join: the number of
\* association rows with the tag, 0 for a tag without one.
tagCount(bag, tagId) == CountRowsOf(bag, {q \in DOMAIN bag : q[2] = tagId})

\* The order by the ID alone
TagRowBeforeById(a, b, scan) ==
    IF scan = "up" THEN TextLt(a.id, b.id) ELSE TextLt(b.id, a.id)

\* orderBy(desc(count(logTags.logId))): row a comes before row b. The order of
\* rows with the same count is the order in which the store scans the groups,
\* by the ID upwards or downwards.
TagRowBefore(a, b, scan) ==
    \/ a.count > b.count
    \/ a.count = b.count /\ (IF scan = "up" THEN TextLt(a.id, b.id) ELSE TextLt(b.id, a.id))

RECURSIVE SortTagRows(_, _)
SortTagRows(rows, scan) ==
    IF rows = {} THEN <<>>
    ELSE Only({<<first>> \o SortTagRows(rows \ {first}, scan) :
                  first \in {a \in rows : \A b \in rows \ {a} : TagRowBefore(a, b, scan)}})

\* The topTags field of the answer.
topTags(tgs, bag, scan) ==
    Limit(SortTagRows({[id |-> t.id, name |-> t.name, count |-> tagCount(bag, t.id)] :
                          t \in tgs}, scan),
          TopTagsLimit)

\* The tags of a workload with more tags than topTags can hold.
MaxTopTags == 11

TopTagChars == Digits \o <<"A">>
TopTagId(i) == <<"T">> \o Rep("0", UlidLen - 2) \o <<TopTagChars[i]>>
TopTagName(i) == <<"t", Lower[i]>>

\* MaxTopTags tags are created one after the other. When there are two tags and
\* when there are all of them, logs are created with the first tag or the first
\* two, their tags are replaced by none or by the second, and they are deleted.
TopTagsProfile ==
    [slots |-> {1},
     logIds |-> {IdText(LogIdChars[1]), IdText(LogIdChars[2])},
     tagIds |-> {TopTagId(i) : i \in 1..MaxTopTags},
     tagBodies |-> IF Cardinality(tags) < MaxTopTags
                   THEN {TagBody(Some(TopTagName(Cardinality(tags) + 1)))} ELSE {},
     createBodies |->
        IF Cardinality(tags) \in {2, MaxTopTags}
        THEN {LogBody(Some("meal"), Some(<<"a">>), Some(1), Some(<<TopTagId(1)>>)),
              LogBody(Some("meal"), Some(<<"a">>), Some(1), Some(<<TopTagId(1), TopTagId(2)>>))}
        ELSE {},
     updateBodies |-> {LogBody(None, None, None, Some(<<>>)),
                       LogBody(None, None, None, Some(<<TopTagId(2)>>))},
     logPathIds |-> IF Cardinality(tags) \in {2, MaxTopTags}
                    THEN {IdText(LogIdChars[1])} ELSE {},
     clock |-> {1},
     anyId |-> FALSE]

\* A client asks for the stats; the topTags of the answer are kept. It is the
\* last step of a run.
ProbeTopTags ==
    /\ probe = None
    /\ \E scan \in {"up", "down"} :
        probe' = Some([scan |-> scan, topTags |-> topTags(tags, logTags, scan)])
    /\ reply' = NoReply
    /\ UNCHANGED <<logs, tags, logTags, usedIds, req, run>>

NextTopTags ==
    \/ /\ probe = None
       /\ \E s \in TopTagsProfile.slots :
            \/ StartCreateTag(s, TopTagsProfile)
            \/ CreateTagSelectName(s, TopTagsProfile)
            \/ CreateTagInsert(s)
            \/ StartCreateLog(s, TopTagsProfile)
            \/ CreateLogInsertLog(s)
            \/ CreateLogInsertTags(s)
            \/ StartUpdateLog(s, TopTagsProfile)
            \/ UpdateLogSelectExisting(s, TopTagsProfile)
            \/ UpdateLogUpdate(s)
            \/ UpdateLogDeleteTags(s)
            \/ UpdateLogInsertTags(s)
            \/ UpdateLogSelectUpdated(s)
            \/ StartDeleteLog(s, TopTagsProfile)
            \/ DeleteLogSelectExisting(s)
            \/ DeleteLogDelete(s)
    \/ ProbeTopTags

SpecTopTags == Init /\ [][NextTopTags]_vars

\* The association rows stored for a tag.
AssociationsOf(tagId) == {p \in DOMAIN logTags : p[2] = tagId /\ logTags[p] > 0}

(* C24. In every store state topTags has at most 10 elements, all of them   *)
(* the 10 tags with the most associations when there are more tags; they    *)
(* are different tags of the store, in the order of their counts, largest   *)
(* first, and the count of each is the number of association rows now       *)
(* stored for the tag.                                                      *)
C24_TopTags ==
    probe # None
        => LET top == probe[1].topTags
           IN  /\ Len(top) <= 10
               /\ Len(top) = (IF Cardinality(tags) < 10 THEN Cardinality(tags) ELSE 10)
               /\ \A i, j \in DOMAIN top : top[i].id = top[j].id => i = j
               /\ \A i \in DOMAIN top :
                     /\ \E t \in tags : t.id = top[i].id /\ t.name = top[i].name
                     /\ top[i].count = Cardinality(AssociationsOf(top[i].id))
               /\ \A i, j \in DOMAIN top : i < j => top[i].count >= top[j].count
               /\ \A t \in tags :
                     (\A i \in DOMAIN top : top[i].id # t.id)
                        => \A i \in DOMAIN top :
                               top[i].count >= Cardinality(AssociationsOf(t.id))

\* Eleven tags; two logs were created and the first was deleted with its
\* associations: the two tags of the second log come first with count 1, then
\* tags without an association, and one tag is left out.
C24_Witness ==
    /\ probe # None
    /\ Cardinality(tags) = MaxTopTags
    /\ Len(probe[1].topTags) = 10
    /\ Cardinality(logs) = 1
    /\ IdText(LogIdChars[1]) \in usedIds /\ IdText(LogIdChars[1]) \notin LogIdsOf(logs)
    /\ probe[1].topTags[1].count = 1
    /\ probe[1].topTags[2].count = 1
    /\ probe[1].topTags[3].count = 0

\* The JSON values that the workloads store as metadata, by the token that
\* stands for them in a log row: what kind of value it is, whether it has a
\* key url, and the type and text of the value of that key.
JsonUrl(type, text) == [type |-> type, text |-> text]

MetadataJson(m) ==
    CASE m = "null"    -> [kind |-> "null", hasUrl |-> FALSE, url |-> JsonUrl("none", "")]
      [] m = "text"    -> [kind |-> "string", hasUrl |-> FALSE, url |-> JsonUrl("none", "")]
      [] m = "m1"      -> [kind |-> "object", hasUrl |-> FALSE, url |-> JsonUrl("none", "")]
      [] m = "urlA"    -> [kind |-> "object", hasUrl |-> TRUE, url |-> JsonUrl("string", "https://a")]
      [] m = "urlB"    -> [kind |-> "object", hasUrl |-> TRUE, url |-> JsonUrl("string", "https://b")]
      [] m = "urlNull" -> [kind |-> "object", hasUrl |-> TRUE, url |-> JsonUrl("null", "")]
      [] m = "url42"   -> [kind |-> "object", hasUrl |-> TRUE, url |-> JsonUrl("number", "42")]

\* .limit(10) of the recentUrls query
RecentUrlsLimit == 10

\* orderBy(desc(logs.timestamp)): row a comes before row b. The order of rows
\* with the same timestamp is the order in which the store scans them, by the
\* ID upwards or downwards.
UrlRowBefore(a, b, scan) ==
    \/ a.timestamp > b.timestamp
    \/ a.timestamp = b.timestamp
         /\ (IF scan = "up" THEN TextLt(a.id, b.id) ELSE TextLt(b.id, a.id))

RECURSIVE SortUrlRows(_, _)
SortUrlRows(rows, scan) ==
    IF rows = {} THEN <<>>
    ELSE Only({<<first>> \o SortUrlRows(rows \ {first}, scan) :
                  first \in {a \in rows : \A b \in rows \ {a} : UrlRowBefore(a, b, scan)}})

\* The rows of the recentUrls query.
recentUrlsResult(lgs, scan) ==
    Limit(SortUrlRows({l \in lgs : l.type = "bookmark"}, scan), RecentUrlsLimit)

\* r.metadata && typeof r.metadata === "object" && "url" in r.metadata: the
\* value of the key is returned whatever its type; a null is filtered out.
urlOf(metadata) ==
    \E json \in {MetadataJson(metadata)} :
        json.kind = "object" /\ json.hasUrl /\ json.url.type # "null"

\* The recentUrls field of the answer.
recentUrls(lgs, scan) ==
    Only({[i \in DOMAIN kept |-> MetadataJson(kept[i].metadata).url] :
            kept \in {SelectSeq(recentUrlsResult(lgs, scan), LAMBDA r : urlOf(r.metadata))}})

\* The logs of a workload with more bookmarks than recentUrls can hold.
MaxUrlLogs == 11

UrlBody(type, timestamp, metadata) ==
    [LogBody(Some(type), Some(<<"a">>), Some(timestamp), None) EXCEPT !.metadata = metadata]

\* MaxUrlLogs logs are created one after the other: the first two are bookmarks
\* or not, older or newer than the rest, with every kind of metadata; the rest
\* are bookmarks of one timestamp with a url.
UrlsProfile ==
    [slots |-> {1},
     logIds |-> {BulkId(i) : i \in 1..MaxUrlLogs},
     createBodies |->
        IF Cardinality(usedIds) < 2
        THEN {UrlBody(type, timestamp, metadata) :
                type \in {"bookmark", "thought"}, timestamp \in {1, 3},
                metadata \in {None, Some("null"), Some("text"), Some("m1"),
                              Some("urlA"), Some("urlNull"), Some("url42")}}
        ELSE {UrlBody("bookmark", 2, Some("urlB"))},
     clock |-> {1},
     anyId |-> FALSE]

\* A client asks for the stats; the recentUrls of the answer are kept. It is
\* the last step of a run.
ProbeUrls ==
    /\ probe = None
    /\ \E scan \in {"up", "down"} :
        probe' = Some([scan |-> scan, recentUrls |-> recentUrls(logs, scan)])
    /\ reply' = NoReply
    /\ UNCHANGED <<logs, tags, logTags, usedIds, req, run>>

NextUrls ==
    \/ /\ probe = None
       /\ \E s \in UrlsProfile.slots :
            \/ StartCreateLog(s, UrlsProfile)
            \/ CreateLogInsertLog(s)
    \/ ProbeUrls

SpecUrls == Init /\ [][NextUrls]_vars

\* The bookmarks of the store whose metadata is an object with a url that is
\* a string.
UrlBookmarks ==
    {l \in logs : /\ l.type = "bookmark"
                  /\ \E json \in {MetadataJson(l.metadata)} :
                        json.kind = "object" /\ json.hasUrl /\ json.url.type = "string"}

(* C25. In every store state recentUrls has at most 10 elements, and each   *)
(* element is the string value of metadata.url of a bookmark entry; no      *)
(* bookmark that carries such a url is newer than all the bookmarks whose   *)
(* urls are in the list and left out; a bookmark whose metadata is absent,  *)
(* lacks url, or holds a url that is not a string contributes no element.   *)
C25_RecentUrls ==
    probe # None
        => LET urls == probe[1].recentUrls
           IN  /\ Len(urls) <= 10
               /\ \A i \in DOMAIN urls :
                     /\ urls[i].type = "string"
                     /\ \E l \in UrlBookmarks : MetadataJson(l.metadata).url = urls[i]
               /\ Len(urls) <= Cardinality(UrlBookmarks)

-----------------------------------------------------------------------------
(* Paging over logs whose timestamp is zero or negative.                   *)

\* Logs with the tag and a timestamp of -1, 0 or 1 are created one after the
\* other, and the timestamp of the first is set to 0 or to 1; then a client
\* pages through a listing one item at a time.
EarlyProfile ==
    [slots |-> {1},
     logIds |-> {IdText(LogIdChars[i]) : i \in 1..3},
     tagIds |-> {PagingTagId},
     createBodies |->
        IF tags = {} THEN {}
        ELSE {LogBody(Some("meal"), Some(<<"a">>), Some(ts), Some(<<PagingTagId>>)) :
                ts \in {0 - 1, 0, 1}},
     updateBodies |-> {LogBody(None, None, Some(0), None),
                       LogBody(None, None, Some(1), None)},
     tagBodies |-> IF tags = {} THEN {TagBody(Some(<<"a">>))} ELSE {},
     logPathIds |-> {IdText(LogIdChars[1])},
     clock |-> {1},
     anyId |-> FALSE,
     queries |->
        {Query("day", 0 - 1, 1, <<>>, <<>>, Some(<<"1">>)),
         Query("timeline", 0, 0, <<>>, <<>>, Some(<<"1">>)),
         Query("tag", 0, 0, <<>>, PagingTagId, Some(<<"1">>))}]

\* The writes end before the client opens the listing.
NextEarly ==
    \/ StartRun(EarlyProfile)
    \/ FetchPage
    \/ /\ run.state = "idle"
       /\ \E s \in EarlyProfile.slots :
            \/ StartCreateTag(s, EarlyProfile)
            \/ CreateTagSelectName(s, EarlyProfile)
            \/ CreateTagInsert(s)
            \/ StartCreateLog(s, EarlyProfile)
            \/ CreateLogInsertLog(s)
            \/ CreateLogInsertTags(s)
            \/ StartUpdateLog(s, EarlyProfile)
            \/ UpdateLogSelectExisting(s, EarlyProfile)
            \/ UpdateLogUpdate(s)
            \/ UpdateLogSelectUpdated(s)

SpecEarly == Init /\ [][NextEarly]_vars

(* C26. Every nextCursor that a listing returns is accepted as the cursor   *)
(* of the next request to the same listing, whatever timestamp create-log   *)
(* or update-log stored, zero and negative ones included: the cursor the    *)
(* client holds decodes, and no page asked for with it is answered 400.     *)
C26_IssuedCursorAccepted ==
    /\ run.cursor # None => DecodeCursor(run.cursor).kind = "ok"
    /\ run.pages > 1 => run.page.status # 400

-----------------------------------------------------------------------------
(* Requests that fail at the INSERT of their associations.                 *)

(* C27. A create-log or update-log request with tagIds is all-or-nothing:   *)
(* when it is answered with an error because the INSERT of the associations *)
(* failed (a well-formed tag ID of no stored tag, or the same tag ID twice), *)
(* none of its statements has changed a row: create has added no log, and   *)
(* update has changed no field and removed no association of the log.       *)
C27_AllOrNothing ==
    (/\ reply.op \in {"createLog", "updateLog"}
     /\ reply.status = InternalErrorStatus
     /\ Len(validTagIds(reply.body)) > 0)
        => /\ reply.changed = {}
           /\ reply.op = "createLog" => reply.id[1] \notin LogIdsOf(logs)

-----------------------------------------------------------------------------
(* Two update-log requests for one log at the same time.                   *)

RacedLogId == IdText(LogIdChars[1])
RaceTagA == IdText(TagIdChars[1])
RaceTagB == IdText(TagIdChars[2])

\* The tagIds that the update of each connection sends, by the field value it
\* sends with them: the first connection sets the type, the second the content.
TagIdsOfType == [bookmark |-> <<RaceTagA>>, media |-> <<RaceTagA, RaceTagB>>]
TagIdsOfContent == [b |-> <<RaceTagB>>, c |-> <<RaceTagA>>]

\* Two tags and a log with the first tag are created on the first connection;
\* then each connection sends one update of the log with tagIds.
TwoUpdatesProfile(s) ==
    [slots |-> {1, 2},
     logIds |-> {RacedLogId},
     tagIds |-> {RaceTagA, RaceTagB},
     tagBodies |-> IF Cardinality(tags) < 2
                   THEN {TagBody(Some(<<Lower[Cardinality(tags) + 1]>>))} ELSE {},
     createBodies |-> IF Cardinality(tags) = 2
                      THEN {LogBody(Some("meal"), Some(<<"a">>), Some(1), Some(<<RaceTagA>>))}
                      ELSE {},
     updateBodies |->
        IF s = 1
        THEN {LogBody(Some(type), None, None, Some(TagIdsOfType[type])) :
                 type \in DOMAIN TagIdsOfType}
        ELSE {LogBody(None, Some(<<content>>), None, Some(TagIdsOfContent[content])) :
                 content \in DOMAIN TagIdsOfContent},
     logPathIds |-> {RacedLogId},
     clock |-> {1},
     anyId |-> FALSE]

\* The update of connection s has been sent: its UPDATE has set its field.
UpdateSent(s) ==
    \E l \in logs :
        IF s = 1 THEN l.type \in DOMAIN TagIdsOfType
        ELSE l.content \in {<<content>> : content \in DOMAIN TagIdsOfContent}

\* The log is there with its tag and no request is under way when the first
\* update begins; a connection sends no second update.
NextTwoUpdates ==
    \/ /\ logs = {}
       /\ \/ StartCreateTag(1, TwoUpdatesProfile(1))
          \/ CreateTagSelectName(1, TwoUpdatesProfile(1))
          \/ CreateTagInsert(1)
          \/ StartCreateLog(1, TwoUpdatesProfile(1))
          \/ CreateLogInsertLog(1)
    \/ CreateLogInsertTags(1)
    \/ \E s \in {1, 2} :
          \/ /\ \/ logTags # EmptyBag
                \/ \E t \in {1, 2} : UpdateSent(t) \/ req[t].op = "updateLog"
             /\ ~UpdateSent(s)
             /\ StartUpdateLog(s, TwoUpdatesProfile(s))
          \/ UpdateLogSelectExisting(s, TwoUpdatesProfile(s))
          \/ UpdateLogUpdate(s)
          \/ UpdateLogDeleteTags(s)
          \/ UpdateLogInsertTags(s)
          \/ UpdateLogSelectUpdated(s)

SpecTwoUpdates == Init /\ [][NextTwoUpdates]_vars

\* Both updates have been sent and answered.
BothUpdatesFinished ==
    /\ \A s \in {1, 2} : UpdateSent(s) /\ CanStart(s)

(* C28. When two update-log requests for the same log, each with tagIds,    *)
(* interleave statement by statement, no request is answered with an error  *)
(* (none fails on a duplicate association), and when both have finished the *)
(* associations of the log are the tagIds of one of the two requests, never *)
(* a mixture of both.                                                       *)
C28_OneOfTwo ==
    /\ reply.op = "updateLog" => reply.status = 200
    /\ BothUpdatesFinished =>
          \E l \in logs :
             {p[2] : p \in AssociationsOfLog(logTags, RacedLogId)}
                \in {Range(TagIdsOfType[l.type]), Range(TagIdsOfContent[l.content[1]])}

-----------------------------------------------------------------------------
(* A delete-log request during an update-log request for the same log.      *)

\* The tags and the log are created as for the two updates; the updates set a
\* field, replace the tags, or both.
DeleteRaceProfile ==
    [TwoUpdatesProfile(1) EXCEPT
        !.updateBodies = {LogBody(Some("bookmark"), None, None, None),
                          LogBody(Some("bookmark"), None, None, Some(<<RaceTagB>>)),
                          LogBody(None, None, None, Some(<<>>))}]

\* The first connection updates the log while the second deletes it.
NextDeleteRace ==
    \/ /\ logs = {}
       /\ \/ StartCreateTag(1, DeleteRaceProfile)
          \/ CreateTagSelectName(1, DeleteRaceProfile)
          \/ CreateTagInsert(1)
          \/ StartCreateLog(1, DeleteRaceProfile)
          \/ CreateLogInsertLog(1)
    \/ CreateLogInsertTags(1)
    \/ /\ logTags # EmptyBag
       /\ \/ StartUpdateLog(1, DeleteRaceProfile)
          \/ StartDeleteLog(2, DeleteRaceProfile)
    \/ UpdateLogSelectExisting(1, DeleteRaceProfile)
    \/ UpdateLogUpdate(1)
    \/ UpdateLogDeleteTags(1)
    \/ UpdateLogInsertTags(1)
    \/ UpdateLogSelectUpdated(1)
    \/ DeleteLogSelectExisting(2)
    \/ DeleteLogDelete(2)

SpecDeleteRace == Init /\ [][NextDeleteRace]_vars

(* C29. When a delete-log request for a log interleaves with an update-log  *)
(* request for the same log after the update's existence check, no          *)
(* statement of the update stores the log again, no association is left for *)
(* the deleted ID, and the update is answered with the updated log or with  *)
(* NotFound, never with an internal error or an empty body.                 *)
C29_UpdateAfterDelete ==
    [][/\ (RacedLogId \in LogIdsOf(logs') /\ RacedLogId \notin LogIdsOf(logs))
            => req[1].op = "createLog"
       /\ RacedLogId \notin LogIdsOf(logs') => AssociationsOfLog(logTags', RacedLogId) = {}
       /\ reply'.op = "updateLog"
            => \/ reply'.status = 200 /\ reply'.resp = "log"
               \/ reply'.status = 404
      ]_vars

-----------------------------------------------------------------------------
(* The Dashboard component. In the specification of the Dashboard the      *)
(* variable probe holds the state of the one mounted component: its useState *)
(* values and the requests it has sent and not yet had an answer to. An     *)
(* event handler, the render after it and the effects of that render are    *)
(* one step; the answer to a request is another. Requests are answered in   *)
(* any order, and none fails.                                               *)

\* The days the Dashboard shows: today and the day after.
DashboardDates == <<DateText(2024, 1, 1), DateText(2024, 1, 2)>>

\* getUserTimezone() of the browser
DashboardZone == "UTC"

dashboard == probe[1]

Sent(kind, arg) == [kind |-> kind, arg |-> arg]

\* The useState values of a new component.
NewDashboard ==
    [date |-> DashboardDates[1], logs |-> {}, tags |-> {}, loading |-> TRUE,
     viewMode |-> "day", selectedTagId |-> None,
     tagLogs |-> {}, tagLoading |-> FALSE,
     archiveLogs |-> {}, archiveLoading |-> FALSE,
     pending |-> {}]

\* loadData, up to its await
loadData(d) ==
    [d EXCEPT !.loading = TRUE, !.pending = @ \cup {Sent("day", d.date)}]

\* loadTagLogs() without cursor, up to its await
loadTagLogs(d) ==
    IF d.selectedTagId = None THEN d
    ELSE [d EXCEPT !.tagLoading = TRUE,
                   !.pending = @ \cup {Sent("tag", d.selectedTagId[1])}]

\* loadArchiveLogs() without cursor, up to its await
loadArchiveLogs(d) ==
    [d EXCEPT !.archiveLoading = TRUE, !.pending = @ \cup {Sent("archive", <<>>)}]

\* useEffect(..., [viewMode, loadData]); loadData changes with date
DayEffect(old, d) ==
    IF old.viewMode = d.viewMode /\ old.date = d.date THEN d
    ELSE IF d.viewMode # "day" THEN d
    ELSE loadData(d)

\* useEffect(..., [viewMode, selectedTagId, loadTagLogs])
TagEffect(old, d) ==
    IF old.viewMode = d.viewMode /\ old.selectedTagId = d.selectedTagId THEN d
    ELSE IF d.viewMode # "tag" THEN d
    ELSE IF d.selectedTagId = None THEN [d EXCEPT !.tagLogs = {}]
    ELSE loadTagLogs([d EXCEPT !.tagLogs = {}])

\* useEffect(..., [viewMode, archiveFilter, loadArchiveLogs])
ArchiveEffect(old, d) ==
    IF old.viewMode = d.viewMode THEN d
    ELSE IF d.viewMode # "archive" THEN d
    ELSE loadArchiveLogs([d EXCEPT !.archiveLogs = {}])

\* The effects of the render that follows a change of state from old to d, in
\* the order of their declaration.
Effects(old, d) ==
    Only({ArchiveEffect(old, afterTag) :
            afterTag \in {Only({TagEffect(old, afterDay) :
                                  afterDay \in {DayEffect(old, d)}})}})

\* const baseLogs = viewMode === "tag" ? tagLogs : logs
baseLogs(d) == IF d.viewMode = "tag" THEN "tagLogs" ELSE "logs"

\* showArchiveView ? archive : showTagView ? tag view : day timeline
ShownView(d) ==
    IF d.viewMode = "archive" THEN "archive"
    ELSE IF d.viewMode = "tag" /\ d.selectedTagId # None THEN "tag"
    ELSE "day"

\* The component is mounted once the store holds the log with its tag: the
\* first render and its effects.
Mount ==
    /\ probe = None
    /\ logTags # EmptyBag
    /\ probe' = Some(loadData(NewDashboard))
    /\ reply' = NoReply
    /\ UNCHANGED <<logs, tags, logTags, usedIds, req, run>>

Rendered(d) ==
    /\ probe' = Some(Effects(dashboard, d))
    /\ UNCHANGED <<logs, tags, logTags, usedIds, req, reply, run>>

\* handleSelectTag(tagId), from the tags of the left sidebar
SelectTag ==
    /\ probe # None
    /\ \E tagId \in dashboard.tags :
        \E next \in {IF dashboard.selectedTagId = Some(tagId) THEN None ELSE Some(tagId)} :
            Rendered([dashboard EXCEPT
                         !.selectedTagId = next,
                         !.viewMode = IF next # None THEN "tag" ELSE "day"])

\* 'Back to day view', a button of the tag view: setSelectedTagId(null)
BackToDayView ==
    /\ probe # None
    /\ ShownView(dashboard) = "tag"
    /\ Rendered([dashboard EXCEPT !.selectedTagId = None])

\* 'Day': setViewMode("day"); setSelectedTagId(null)
DayButton ==
    /\ probe # None
    /\ Rendered([dashboard EXCEPT !.viewMode = "day", !.selectedTagId = None])

\* 'Archive': setViewMode("archive"); setSelectedTagId(null)
ArchiveButton ==
    /\ probe # None
    /\ Rendered([dashboard EXCEPT !.viewMode = "archive", !.selectedTagId = None])

\* goToPrevDay, goToNextDay and goToToday of the date navigation, which is
\* rendered with the day timeline; the days are those of DashboardDates.
GoToDay ==
    /\ probe # None
    /\ ShownView(dashboard) = "day"
    /\ \E i \in DOMAIN DashboardDates :
        /\ DashboardDates[i] # dashboard.date
        /\ Rendered([dashboard EXCEPT !.date = DashboardDates[i]])

\* The answer to a request of loadData: setLogs, setTags, setLoading(false).
DayAnswer ==
    /\ probe # None
    /\ \E r \in dashboard.pending :
        /\ r.kind = "day"
        /\ Rendered([dashboard EXCEPT
                        !.logs = ItemIds(ListDay(Some(r.arg), Some(DashboardZone), None, None,
                                                 logs, logTags).items),
                        !.tags = TagIdsOf(tags),
                        !.loading = FALSE,
                        !.pending = @ \ {r}])

\* The answer to a request of loadTagLogs: setTagLogs, setTagLoading(false).
TagAnswer ==
    /\ probe # None
    /\ \E r \in dashboard.pending :
        /\ r.kind = "tag"
        /\ Rendered([dashboard EXCEPT
                        !.tagLogs = ItemIds(ListLogs(Query("tag", 0, 0, <<>>, r.arg,
                                                           Some(<<"5", "0">>)),
                                                     None, logs, logTags).items),
                        !.tagLoading = FALSE,
                        !.pending = @ \ {r}])

\* The answer to a request of loadArchiveLogs.
ArchiveAnswer ==
    /\ probe # None
    /\ \E r \in dashboard.pending :
        /\ r.kind = "archive"
        /\ Rendered([dashboard EXCEPT
                        !.archiveLogs = ItemIds(ListLogs(Query("timeline", 0, 0, <<>>, <<>>,
                                                               Some(<<"5", "0">>)),
                                                         None, logs, logTags).items),
                        !.archiveLoading = FALSE,
                        !.pending = @ \ {r}])

\* Two tags and a log with the first tag are stored; then the Dashboard is
\* mounted and used.
NextDashboard ==
    \/ /\ logs = {}
       /\ \/ StartCreateTag(1, TwoUpdatesProfile(1))
          \/ CreateTagSelectName(1, TwoUpdatesProfile(1))
          \/ CreateTagInsert(1)
          \/ StartCreateLog(1, TwoUpdatesProfile(1))
          \/ CreateLogInsertLog(1)
    \/ CreateLogInsertTags(1)
    \/ Mount
    \/ SelectTag
    \/ BackToDayView
    \/ DayButton
    \/ ArchiveButton
    \/ GoToDay
    \/ DayAnswer
    \/ TagAnswer
    \/ ArchiveAnswer

SpecDashboard == Init /\ [][NextDashboard]_vars

(* C30. In the Dashboard, after any sequence of select tag, re-select the   *)
(* same tag, 'Back to day view', 'Day' and 'Archive', viewMode is "tag"     *)
(* only while a tag is selected; so whenever the day timeline is the view   *)
(* shown, its list is built from the logs loaded for the day and not from   *)
(* the tag list.                                                            *)
C30_TagModeOnlyWithTag ==
    probe # None
        => /\ dashboard.viewMode = "tag" => dashboard.selectedTagId # None
           /\ ShownView(dashboard) = "day" => baseLogs(dashboard) = "logs"

=============================================================================
